---- MODULE Spec2Model ----
(***************************************************************************)
(* Model of the binary tree codec of io_pdx_mesh (src/pdx_data.py): the    *)
(* reader read_meshfile with parseObject / parseProperty / parseString /   *)
(* parseData, the writers write_meshfile / write_animfile with writeObject *)
(* / writeProperty / writeString / writeData, and the depth of PDXData.    *)
(*                                                                         *)
(* Representation.                                                         *)
(*   - a byte buffer is a sequence of integers 0..255;                     *)
(*   - a Python text string is the sequence of its code points; Latin-1    *)
(*     maps the code point n to the byte n and back;                       *)
(*   - a Python list value is a sequence of items: <<"int", n>>,           *)
(*     <<"float", b, r>> or <<"str", s>>.  An item carries its Python      *)
(*     type, a list carries none, so the empty list is <<>> whatever it    *)
(*     was meant to hold;                                                  *)
(*   - a Python float (a double inside the float32 range) is               *)
(*     <<"float", b, r>>: b is the bit pattern, read as a signed 32-bit    *)
(*     integer, of the float32 obtained by cutting the mantissa after 23   *)
(*     bits, and r in 0..2^29-1 is the value of the 29 mantissa bits that  *)
(*     were cut.  r = 0 exactly when the double is a float32;              *)
(*   - an element tree is a sequence of elements in creation order, each   *)
(*     [tag, parent, attrib]; parent is the index of the parent (0 for the *)
(*     root) and the children of an element are the elements naming it, in *)
(*     index order (Xml.SubElement appends); attrib is the dict as the     *)
(*     sequence of its <<name, value>> pairs in insertion order.           *)
(***************************************************************************)
EXTENDS Integers, Sequences, FiniteSets, TLC

\* ---------------------------------------------------------------- names
S_File == <<70, 105, 108, 101>>
S_object == <<111, 98, 106, 101, 99, 116>>
S_locator == <<108, 111, 99, 97, 116, 111, 114>>
S_info == <<105, 110, 102, 111>>
S_samples == <<115, 97, 109, 112, 108, 101, 115>>
S_mesh == <<109, 101, 115, 104>>
S_skeleton == <<115, 107, 101, 108, 101, 116, 111, 110>>
S_aabb == <<97, 97, 98, 98>>
S_material == <<109, 97, 116, 101, 114, 105, 97, 108>>
S_skin == <<115, 107, 105, 110>>
S_pdxasset == <<112, 100, 120, 97, 115, 115, 101, 116>>
S_lod == <<108, 111, 100>>
S_boundingsphere == <<98, 111, 117, 110, 100, 105, 110, 103, 115, 112, 104, 101, 114, 101>>
S_shader == <<115, 104, 97, 100, 101, 114>>
S_diff == <<100, 105, 102, 102>>
S_spec == <<115, 112, 101, 99>>
S_bones == <<98, 111, 110, 101, 115>>
S_min == <<109, 105, 110>>
S_max == <<109, 97, 120>>
S_tri == <<116, 114, 105>>
S_fps == <<102, 112, 115>>
S_p == <<112>>
S_n == <<110>>
S_ta == <<116, 97>>
S_u0 == <<117, 48>>
S_u1 == <<117, 49>>
S_u2 == <<117, 50>>
S_u3 == <<117, 51>>
S_ix == <<105, 120>>
S_w == <<119>>
S_pa == <<112, 97>>
S_tx == <<116, 120>>
S_q == <<113>>
S_sa == <<115, 97>>
S_j == <<106>>
S_t == <<116>>
S_s == <<115>>
S_name == <<110, 97, 109, 101>>
S_depth == <<100, 101, 112, 116, 104>>
S_attrlist == <<97, 116, 116, 114, 108, 105, 115, 116>>

\* the header b"@@b@"
Magic == <<64, 64, 98, 64>>

\* the bytes of "[", "!", "i", "f", "s"
CH_OBJ == 91
CH_PROP == 33
CH_I == 105
CH_F == 102
CH_S == 115

\* ---------------------------------------------------------------- python values
\* None, where a list was expected (Element.get of a missing key)
None == << <<"None">> >>

\* None, where a tree was expected
NoTree == <<>>

\* no exception
NoErr == [kind |-> "", msg |-> "", haspos |-> FALSE, pos |-> 0]

\* an exception leaving a function: its class, its message and, when the
\* message reports one, the position it reports
Raise(kind, msg) == [ok |-> FALSE, kind |-> kind, msg |-> msg, haspos |-> FALSE, pos |-> 0]
RaiseAt(kind, msg, p) == [ok |-> FALSE, kind |-> kind, msg |-> msg, haspos |-> TRUE, pos |-> p]
ErrOf(r) == [kind |-> r.kind, msg |-> r.msg, haspos |-> r.haspos, pos |-> r.pos]

Min2(a, b) == IF a < b THEN a ELSE b
Last(s) == s[Len(s)]

\* ---------------------------------------------------------------- struct.unpack_from
\* a negative offset counts from the end of the buffer
Offset(bdata, offset) == IF offset < 0 THEN offset + Len(bdata) ELSE offset

\* unpack_from raises struct.error unless `size` bytes lie at `offset`
CanUnpack(bdata, offset, size) ==
    /\ Offset(bdata, offset) >= 0
    /\ Len(bdata) - Offset(bdata, offset) >= size

\* format "c": one byte
unpack_c(bdata, offset) == bdata[Offset(bdata, offset) + 1]

\* format "b": one signed byte
unpack_b(bdata, offset) ==
    LET c == unpack_c(bdata, offset) IN IF c >= 128 THEN c - 256 ELSE c

\* format "i" (and the bits of format "f"): four bytes, little-endian, signed
unpack_i(bdata, offset) ==
    LET o == Offset(bdata, offset)
        b3 == IF bdata[o + 4] >= 128 THEN bdata[o + 4] - 256 ELSE bdata[o + 4]
    IN  bdata[o + 1] + 256 * bdata[o + 2] + 65536 * bdata[o + 3] + 16777216 * b3

\* bytes.decode() with the default codec (UTF-8), on one byte: bytes 0x80..0xFF
\* raise UnicodeDecodeError
DecodesAsUtf8(c) == c < 128

\* ---------------------------------------------------------------- the reader's functions
\* the run of "[" at pos: objdepth and the position after it
RECURSIVE parseObject_depth(_, _, _)
parseObject_depth(bdata, pos, objdepth) ==
    IF ~CanUnpack(bdata, pos, 1) THEN Raise("struct.error", "unpack_from requires a buffer")
    ELSE IF ~DecodesAsUtf8(unpack_c(bdata, pos)) THEN Raise("UnicodeDecodeError", "can't decode byte")
    ELSE IF unpack_c(bdata, pos) = CH_OBJ THEN parseObject_depth(bdata, pos + 1, objdepth + 1)
    ELSE [ok |-> TRUE, objdepth |-> objdepth, pos |-> pos]

\* a name loop that takes the end of the buffer for the zero byte
RECURSIVE parseObject_name_eofEnds(_, _, _)
parseObject_name_eofEnds(bdata, pos, obj_name) ==
    IF ~CanUnpack(bdata, pos, 1) THEN [ok |-> TRUE, obj_name |-> obj_name, pos |-> pos]
    ELSE IF unpack_b(bdata, pos) # 0
         THEN parseObject_name_eofEnds(bdata, pos + 1, Append(obj_name, unpack_c(bdata, pos)))
    ELSE [ok |-> TRUE, obj_name |-> obj_name, pos |-> pos]

\* the name up to the zero byte, and the position of that byte
RECURSIVE parseObject_name(_, _, _)
parseObject_name(bdata, pos, obj_name) ==
    IF ~CanUnpack(bdata, pos, 1) THEN Raise("struct.error", "unpack_from requires a buffer")
    ELSE IF unpack_b(bdata, pos) # 0
         THEN parseObject_name(bdata, pos + 1, Append(obj_name, unpack_c(bdata, pos)))
    ELSE [ok |-> TRUE, obj_name |-> obj_name, pos |-> pos]

parseObject(bdata, pos) ==
    LET d == parseObject_depth(bdata, pos, 0) IN
    IF ~d.ok THEN d
    ELSE LET n == parseObject_name(bdata, d.pos, <<>>) IN
         IF ~n.ok THEN n
         ELSE [ok |-> TRUE, obj_name |-> n.obj_name, objdepth |-> d.objdepth, pos |-> n.pos + 1]

\* a parseString that leaves the ending zero byte in the string
parseString_keepZero(bdata, pos, length) ==
    LET n == IF length < 0 THEN 0 ELSE length IN
    IF n > Len(bdata) \/ ~CanUnpack(bdata, pos, n)
    THEN Raise("struct.error", "unpack_from requires a buffer")
    ELSE IF n = 0 THEN Raise("IndexError", "string index out of range")
    ELSE [ok |-> TRUE, string |-> [k \in 1..n |-> bdata[Offset(bdata, pos) + k]]]

parseString(bdata, pos, length) ==
    LET n == IF length < 0 THEN 0 ELSE length IN
    IF n > Len(bdata) \/ ~CanUnpack(bdata, pos, n)
    THEN Raise("struct.error", "unpack_from requires a buffer")
    ELSE LET string == [k \in 1..n |-> bdata[Offset(bdata, pos) + k]] IN
         IF n = 0 THEN Raise("IndexError", "string index out of range")
         ELSE IF string[n] = 0 THEN [ok |-> TRUE, string |-> SubSeq(string, 1, n - 1)]
         ELSE [ok |-> TRUE, string |-> string]

parseData(bdata, pos) ==
    IF ~CanUnpack(bdata, pos, 1) THEN Raise("struct.error", "unpack_from requires a buffer")
    ELSE IF ~DecodesAsUtf8(unpack_c(bdata, pos)) THEN Raise("UnicodeDecodeError", "can't decode byte")
    ELSE IF ~CanUnpack(bdata, pos + 1, 4) THEN Raise("struct.error", "unpack_from requires a buffer")
    ELSE
    LET datatype == unpack_c(bdata, pos)
        datacount == unpack_i(bdata, pos + 1)
        pos5 == pos + 5
        n == IF datacount < 0 THEN 0 ELSE datacount
    IN
    IF datatype \in {CH_I, CH_F} THEN
        IF n > Len(bdata) \/ ~CanUnpack(bdata, pos5, 4 * n)
        THEN Raise("struct.error", "unpack_from requires a buffer")
        ELSE [ok |-> TRUE,
              datavalues |-> [k \in 1..n |->
                  IF datatype = CH_I
                  THEN <<"int", unpack_i(bdata, pos5 + 4 * (k - 1))>>
                  ELSE <<"float", unpack_i(bdata, pos5 + 4 * (k - 1)), 0>>],
              pos |-> pos5 + 4 * datacount]
    ELSE IF datatype = CH_S THEN
        IF ~CanUnpack(bdata, pos5, 4) THEN Raise("struct.error", "unpack_from requires a buffer")
        ELSE LET str_data_length == unpack_i(bdata, pos5)
                 val == parseString(bdata, pos5 + 4, str_data_length)
             IN  IF ~val.ok THEN val
                 ELSE [ok |-> TRUE,
                       datavalues |-> << <<"str", val.string>> >>,
                       pos |-> pos5 + 4 + str_data_length]
    ELSE RaiseAt("NotImplementedError", "Unknown data type encountered.", pos5)

parseProperty(bdata, pos) ==
    IF ~CanUnpack(bdata, pos + 1, 1) THEN Raise("struct.error", "unpack_from requires a buffer")
    ELSE
    LET prop_name_length == unpack_b(bdata, pos + 1)
        prop_name == parseString(bdata, pos + 2, prop_name_length)
    IN  IF ~prop_name.ok THEN prop_name
        ELSE LET d == parseData(bdata, pos + 2 + prop_name_length) IN
             IF ~d.ok THEN d
             ELSE [ok |-> TRUE, prop_name |-> prop_name.string,
                   prop_values |-> d.datavalues, pos |-> d.pos]

\* ---------------------------------------------------------------- element trees
\* Xml.Element(tag)
Element(tag) == [tag |-> tag, parent |-> 0, attrib |-> <<>>]

\* list(element): the children of element n, in the order they were appended
RECURSIVE ChildrenFrom(_, _, _)
ChildrenFrom(t, n, k) ==
    IF k > Len(t) THEN <<>>
    ELSE IF t[k].parent = n THEN <<k>> \o ChildrenFrom(t, n, k + 1)
    ELSE ChildrenFrom(t, n, k + 1)

Children(t, n) == ChildrenFrom(t, n, 1)

\* element.find(tag): the first child with that tag, 0 for None
find(t, n, tag) ==
    LET c == SelectSeq(Children(t, n), LAMBDA k : t[k].tag = tag)
    IN  IF c = <<>> THEN 0 ELSE c[1]

\* element.get(key): the value of the attribute, None when it is not set
get(e, key) ==
    LET a == SelectSeq(e.attrib, LAMBDA kv : kv[1] = key)
    IN  IF a = <<>> THEN None ELSE a[1][2]

\* element.set(key, value) on the dict attrib: a key that is set keeps its place
set(attrib, key, value) ==
    IF \E k \in 1..Len(attrib) : attrib[k][1] = key
    THEN [k \in 1..Len(attrib) |-> IF attrib[k][1] = key THEN <<key, value>> ELSE attrib[k]]
    ELSE Append(attrib, <<key, value>>)

\* PDXData(element).depth: `depth or 0` at the root, self.depth + 1 for a child
RECURSIVE PDXData_depth(_, _)
PDXData_depth(t, n) == IF t[n].parent = 0 THEN 0 ELSE PDXData_depth(t, t[n].parent) + 1

\* ---------------------------------------------------------------- PDXData
\* The fields of a PDXData object: the sequence of its <<name, value>> pairs.  A
\* value is a Python list of items, or one item that is no list; an item is an
\* item of an attribute value or <<"PDXData", k>>, the object built from
\* element k.
PyList(items) == [list |-> TRUE, items |-> items]
NonList(item) == [list |-> FALSE, items |-> <<item>>]

\* the name is not a field of the object
NoAttr == [list |-> FALSE, items |-> <<>>]

\* hasattr(self, name), for the names that are no attribute of the class
hasattr(fields, name) == \E k \in 1..Len(fields) : fields[k][1] = name

\* getattr(self, name)
getattr(fields, name) ==
    LET f == SelectSeq(fields, LAMBDA kv : kv[1] = name)
    IN  IF f = <<>> THEN NoAttr ELSE f[1][2]

\* getattr(self, name).append(item), the field being a list
append(fields, name, item) ==
    [k \in 1..Len(fields) |->
        IF fields[k][1] = name THEN <<name, PyList(Append(fields[k][2].items, item))>>
        ELSE fields[k]]

\* `for attr in element.attrib: setattr(self, attr, ...); self.attrlist.append(attr)`
RECURSIVE PDXData_attribs(_, _)
PDXData_attribs(fields, attrib) ==
    IF attrib = <<>> THEN fields
    ELSE PDXData_attribs(
             append(set(fields, Head(attrib)[1], PyList(Head(attrib)[2])),
                    S_attrlist, <<"str", Head(attrib)[1]>>),
             Tail(attrib))

\* one pass of `for child in list(element)`, child_data being built
PDXData_child(fields, tag, child) ==
    IF hasattr(fields, tag) THEN
        IF getattr(fields, tag).list THEN append(fields, tag, <<"PDXData", child>>)
        ELSE set(fields, tag, PyList(getattr(fields, tag).items \o << <<"PDXData", child>> >>))
    ELSE append(set(fields, tag, NonList(<<"PDXData", child>>)), S_attrlist, <<"str", tag>>)

\* PDXData(element n of t, depth): the fields of the object, or the exception
RECURSIVE PDXData_init(_, _, _)
RECURSIVE PDXData_children(_, _, _)
PDXData_children(t, fields, children) ==
    IF children = <<>> THEN [ok |-> TRUE, fields |-> fields]
    ELSE IF getattr(fields, S_depth).list \/ getattr(fields, S_depth).items[1][1] # "int"
         THEN Raise("TypeError", "can only concatenate list (not \"int\") to list")
    ELSE LET child_data == PDXData_init(t, Head(children), getattr(fields, S_depth).items[1][2] + 1)
         IN  IF ~child_data.ok THEN child_data
             ELSE PDXData_children(t, PDXData_child(fields, t[Head(children)].tag, Head(children)),
                                   Tail(children))

PDXData_init(t, n, depth) ==
    PDXData_children(
        t,
        PDXData_attribs(<< <<S_name, NonList(<<"str", t[n].tag>>)>>,
                           <<S_depth, NonList(<<"int", depth>>)>>,
                           <<S_attrlist, PyList(<<>>)>> >>,
                        t[n].attrib),
        Children(t, n))

\* ---------------------------------------------------------------- struct.pack
\* format "i": -2^31 <= n < 2^31, little-endian
pack_i(n) ==
    LET u == IF n >= 0 THEN n ELSE (n + 2147483647) + 1
        top == IF n >= 0 THEN 0 ELSE 128
    IN  <<u % 256, (u \div 256) % 256, (u \div 65536) % 256, (u \div 16777216) + top>>

\* format "f": the double is rounded to the nearest float32, ties to even
pack_f(x) ==
    LET b == x[2]
        r == x[3]
    IN  pack_i(IF r > 268435456 \/ (r = 268435456 /\ b % 2 = 1) THEN b + 1 ELSE b)

Bytes(data) == [ok |-> TRUE, data |-> data]

\* a += b, where computing a or b may raise
Cat(a, b) == IF ~a.ok THEN a ELSE IF ~b.ok THEN b ELSE Bytes(a.data \o b.data)

RECURSIVE Flatten(_)
Flatten(ss) == IF ss = <<>> THEN <<>> ELSE Head(ss) \o Flatten(Tail(ss))

RECURSIVE CatAll(_)
CatAll(rs) == IF rs = <<>> THEN Bytes(<<>>) ELSE Cat(Head(rs), CatAll(Tail(rs)))

\* ---------------------------------------------------------------- the writer's functions
writeString(string) ==
    IF \E k \in 1..Len(string) : string[k] > 255
    THEN Raise("UnicodeEncodeError", "'latin-1' codec can't encode character")
    ELSE Bytes(string)

\* a writeObject that lets a name of 64 characters pass
writeObject_le64(obj_name, obj_depth) ==
    IF Len(obj_name) > 64
    THEN Raise("NotImplementedError", "Object name is longer than 64 characters")
    ELSE CatAll(<<Bytes([k \in 1..obj_depth |-> CH_OBJ]), writeString(obj_name), Bytes(<<0>>)>>)

writeObject(obj_name, obj_depth) ==
    IF ~(Len(obj_name) < 64)
    THEN Raise("NotImplementedError", "Object name is longer than 64 characters")
    ELSE CatAll(<<Bytes([k \in 1..obj_depth |-> CH_OBJ]), writeString(obj_name), Bytes(<<0>>)>>)

\* set([type(d) for d in data_array])
TypesOf(data_array) == {data_array[k][1] : k \in 1..Len(data_array)}

\* a writeData that does not look at the types: every item is packed as an
\* integer
writeData_coercing(data_array) ==
    IF data_array = None THEN Raise("TypeError", "'NoneType' object is not iterable")
    ELSE IF data_array = <<>> THEN Bytes(<<>>)
    ELSE Bytes(<<CH_I>> \o pack_i(Len(data_array))
               \o Flatten([k \in 1..Len(data_array) |->
                      pack_i(IF data_array[k][1] = "str" THEN 0 ELSE data_array[k][2])]))

\* An integer item is <<"int", n>> with -2^31 <= n < 2^31, or, outside that
\* range, <<"int", n, k>> with k # 0: the integer n + k * 2^32.
InIntRange(item) == Len(item) = 2

\* a struct.pack that keeps the low 32 bits of an integer outside the range
writeData_wrapping(data_array) ==
    IF data_array = None THEN Raise("TypeError", "'NoneType' object is not iterable")
    ELSE IF Cardinality(TypesOf(data_array)) < 1 THEN Bytes(<<>>)
    ELSE IF Cardinality(TypesOf(data_array)) > 1
         THEN Raise("NotImplementedError", "Mixed data types encountered.")
    ELSE IF TypesOf(data_array) = {"int"} THEN
        Bytes(<<CH_I>> \o pack_i(Len(data_array))
              \o Flatten([k \in 1..Len(data_array) |-> pack_i(data_array[k][2])]))
    ELSE IF TypesOf(data_array) = {"float"} THEN
        Bytes(<<CH_F>> \o pack_i(Len(data_array))
              \o Flatten([k \in 1..Len(data_array) |-> pack_f(data_array[k])]))
    ELSE IF TypesOf(data_array) = {"str"} THEN
        CatAll(<<Bytes(<<CH_S>> \o pack_i(1) \o pack_i(Len(data_array[1][2]) + 1)),
                 writeString(data_array[1][2]),
                 Bytes(<<0>>)>>)
    ELSE Raise("NotImplementedError", "Unknown data type encountered.")

writeData(data_array) ==
    IF data_array = None THEN Raise("TypeError", "'NoneType' object is not iterable")
    ELSE IF Cardinality(TypesOf(data_array)) < 1 THEN Bytes(<<>>)
    ELSE IF Cardinality(TypesOf(data_array)) > 1
         THEN Raise("NotImplementedError", "Mixed data types encountered.")
    ELSE IF TypesOf(data_array) = {"int"} THEN
        IF \E k \in 1..Len(data_array) : ~InIntRange(data_array[k])
        THEN Raise("struct.error", "'i' format requires -2147483648 <= number <= 2147483647")
        ELSE
        Bytes(<<CH_I>> \o pack_i(Len(data_array))
              \o Flatten([k \in 1..Len(data_array) |-> pack_i(data_array[k][2])]))
    ELSE IF TypesOf(data_array) = {"float"} THEN
        Bytes(<<CH_F>> \o pack_i(Len(data_array))
              \o Flatten([k \in 1..Len(data_array) |-> pack_f(data_array[k])]))
    ELSE IF TypesOf(data_array) = {"str"} THEN
        CatAll(<<Bytes(<<CH_S>> \o pack_i(1) \o pack_i(Len(data_array[1][2]) + 1)),
                 writeString(data_array[1][2]),
                 Bytes(<<0>>)>>)
    ELSE Raise("NotImplementedError", "Unknown data type encountered.")

writeProperty(prop_name, prop_data) ==
    IF Len(prop_name) > 127 THEN Raise("struct.error", "byte format requires -128 <= number <= 127")
    ELSE CatAll(<<Bytes(<<CH_PROP, Len(prop_name)>>), writeString(prop_name), writeData(prop_data)>>)

\* a loop over the element's own attributes, in the order they were set, that
\* writes those named in props
RECURSIVE writeProps_insertionOrder(_, _)
writeProps_insertionOrder(e, props) ==
    IF e.attrib = <<>> THEN Bytes(<<>>)
    ELSE Cat(IF (\E k \in 1..Len(props) : props[k] = Head(e.attrib)[1]) /\ Head(e.attrib)[2] # None
             THEN writeProperty(Head(e.attrib)[1], Head(e.attrib)[2])
             ELSE Bytes(<<>>),
             writeProps_insertionOrder([e EXCEPT !.attrib = Tail(@)], props))

\* a loop that writes every attribute the element has, in the order they were set
RECURSIVE writeProps_allAttributes(_, _)
writeProps_allAttributes(e, props) ==
    IF e.attrib = <<>> THEN Bytes(<<>>)
    ELSE Cat(IF Head(e.attrib)[2] # None THEN writeProperty(Head(e.attrib)[1], Head(e.attrib)[2])
             ELSE Bytes(<<>>),
             writeProps_allAttributes([e EXCEPT !.attrib = Tail(@)], props))

\* for prop in props: if xml.get(prop) is not None: writeProperty(prop, xml.get(prop))
RECURSIVE writeProps(_, _)
writeProps(e, props) ==
    IF props = <<>> THEN Bytes(<<>>)
    ELSE Cat(IF get(e, Head(props)) # None THEN writeProperty(Head(props), get(e, Head(props)))
             ELSE Bytes(<<>>),
             writeProps(e, Tail(props)))

\* writeObject(xml, depth) followed by the properties of xml named in props
writeNode(t, n, depth, props) == Cat(writeObject(t[n].tag, depth), writeProps(t[n], props))

\* for x in xs: datastring += F(x)
RECURSIVE ForEach(_, _)
ForEach(F(_), xs) == IF xs = <<>> THEN Bytes(<<>>) ELSE Cat(F(Head(xs)), ForEach(F, Tail(xs)))

\* a header written without a look at the root's tag
writeHeader_anyRoot(t) == Cat(Bytes(Magic), writeProperty(S_pdxasset, get(t[1], S_pdxasset)))

\* the header and the pdxasset property, or the error for a root that is not File
writeHeader(t) ==
    IF t[1].tag = S_File
    THEN Cat(Bytes(Magic), writeProperty(S_pdxasset, get(t[1], S_pdxasset)))
    ELSE Raise("NotImplementedError", "Unknown XML root encountered.")

\* a writeMeshSub that passes the depth of the mesh, 3
writeMeshSub_depth3(t, mesh_xml, tag, props) ==
    IF find(t, mesh_xml, tag) # 0 THEN writeNode(t, find(t, mesh_xml, tag), 3, props)
    ELSE Bytes(<<>>)

\* the optional sub-object `tag` of a mesh, at depth 4
writeMeshSub(t, mesh_xml, tag, props) ==
    IF find(t, mesh_xml, tag) # 0 THEN writeNode(t, find(t, mesh_xml, tag), 4, props)
    ELSE Bytes(<<>>)

\* one child of a shape node, at depth 3
writeShapeChild(t, child_xml) ==
    Cat(writeObject(t[child_xml].tag, 3),
        IF t[child_xml].tag = S_mesh THEN
            CatAll(<<writeProps(t[child_xml],
                                <<S_p, S_n, S_ta, S_u0, S_u1, S_u2, S_u3, S_tri, S_boundingsphere>>),
                     writeMeshSub(t, child_xml, S_aabb, <<S_min, S_max>>),
                     writeMeshSub(t, child_xml, S_material, <<S_shader, S_diff, S_n, S_spec>>),
                     writeMeshSub(t, child_xml, S_skin, <<S_bones, S_ix, S_w>>)>>)
        ELSE IF t[child_xml].tag = S_skeleton THEN
            ForEach(LAMBDA bone_xml : writeNode(t, bone_xml, 4, <<S_ix, S_pa, S_tx>>),
                    Children(t, child_xml))
        ELSE Bytes(<<>>))

\* one shape node, at depth 2
writeShape(t, shape_xml) ==
    Cat(writeNode(t, shape_xml, 2, <<S_lod>>),
        ForEach(LAMBDA child_xml : writeShapeChild(t, child_xml), Children(t, shape_xml)))

\* the byte string write_meshfile builds for root_xml, or the exception it raises
write_meshfile_data(t) ==
    CatAll(<<writeHeader(t),
             IF find(t, 1, S_object) # 0 THEN
                 Cat(writeObject(t[find(t, 1, S_object)].tag, 1),
                     ForEach(LAMBDA shape_xml : writeShape(t, shape_xml),
                             Children(t, find(t, 1, S_object))))
             ELSE Bytes(<<>>),
             IF find(t, 1, S_locator) # 0 THEN
                 Cat(writeObject(t[find(t, 1, S_locator)].tag, 1),
                     ForEach(LAMBDA locnode_xml : writeNode(t, locnode_xml, 2, <<S_p, S_q, S_pa, S_tx>>),
                             Children(t, find(t, 1, S_locator))))
             ELSE Bytes(<<>>)>>)

\* the byte string write_animfile builds for root_xml, or the exception it raises
write_animfile_data(t) ==
    CatAll(<<writeHeader(t),
             IF find(t, 1, S_info) # 0 THEN
                 Cat(writeNode(t, find(t, 1, S_info), 1, <<S_fps, S_sa, S_j>>),
                     ForEach(LAMBDA bone_xml : writeNode(t, bone_xml, 2, <<S_sa, S_t, S_q, S_s>>),
                             Children(t, find(t, 1, S_info))))
             ELSE Bytes(<<>>),
             IF find(t, 1, S_samples) # 0
             THEN writeNode(t, find(t, 1, S_samples), 1, <<S_t, S_q, S_s>>)
             ELSE Bytes(<<>>)>>)

\* ---------------------------------------------------------------- bounds and inputs
\* the longest stream of well-formed tokens a file on disk holds
MaxTokens == 5
\* the longest stream of arbitrary chunks a file on disk holds
MaxChunks == 3

\* no file at filepath
Absent == <<-1>>

ObjToken(depth, name) == [k \in 1..depth |-> CH_OBJ] \o name \o <<0>>
PropToken(name, datatype, count, payload) ==
    <<CH_PROP, Len(name)>> \o name \o <<datatype>> \o pack_i(count) \o payload

\* token k of a well-formed stream: an object "a", "b", ... of depth kind (1..3),
\* or for kind 0 the integer property p = [k]
StreamToken(kind, k) ==
    IF kind = 0 THEN PropToken(S_p, CH_I, 1, pack_i(k)) ELSE ObjToken(kind, <<96 + k>>)

TokenStreams ==
    UNION {{Flatten([k \in 1..n |-> StreamToken(kinds[k], k)]) : kinds \in [1..n -> 0..3]}
           : n \in 0..MaxTokens}

\* pieces of arbitrary files: well-formed tokens of each type, and malformed ones
Chunks ==
    {ObjToken(1, <<97>>),
     ObjToken(2, <<98>>),
     PropToken(S_p, CH_I, 1, pack_i(7)),
     PropToken(S_n, CH_F, 1, pack_i(1069547520)),
     PropToken(S_s, CH_S, 1, pack_i(3) \o <<104, 105, 0>>),
     PropToken(S_q, CH_I, 0, <<>>),
     PropToken(S_p, CH_I, -2, <<>>),
     PropToken(S_p, 120, 1, <<>>),
     PropToken(<<>>, CH_I, 0, <<>>),
     <<CH_OBJ, 99>>,
     <<65>>,
     <<0>>,
     <<128>>}

ChunkStreams ==
    UNION {{Flatten(cs) : cs \in [1..n -> Chunks]} : n \in 0..MaxChunks}

\* files that do not start with the header
WrongHeaders ==
    {<<64, 64, 116, 64>>, <<64, 64, 98, 65>>, <<65, 64, 98, 64>>, <<0, 0, 0, 0>>, <<255, 64, 98, 64>>}

ShortFiles == {SubSeq(Magic, 1, n) : n \in 0..3}

\* complete tokens of each type: an object, an integer, a float pair and a
\* string property
WholeTokens ==
    {ObjToken(2, <<98>>),
     PropToken(S_p, CH_I, 1, pack_i(7)),
     PropToken(S_n, CH_F, 2, pack_i(1069547520) \o pack_i(0)),
     PropToken(S_s, CH_S, 1, pack_i(3) \o <<104, 105, 0>>)}

\* the token cut short: every beginning of it that is not empty and not whole
Truncations(token) == {SubSeq(token, 1, n) : n \in 1..(Len(token) - 1)}

\* complete tokens a cut token may come after
TokensBefore == {<<>>, ObjToken(1, <<97>>), ObjToken(1, <<97>>) \o PropToken(S_p, CH_I, 1, pack_i(7))}

\* streams that end in the middle of a token
TruncatedStreams ==
    {before \o cut : before \in TokensBefore, cut \in UNION {Truncations(token) : token \in WholeTokens}}

\* streams in which a child's tag is also the name of an attribute of its
\* parent, or the name of a field every PDXData object has
NameClashStreams ==
    {ObjToken(1, <<97>>) \o PropToken(S_p, CH_I, 1, pack_i(7)) \o ObjToken(2, S_p),
     ObjToken(1, <<97>>) \o ObjToken(2, S_name),
     ObjToken(1, <<97>>) \o ObjToken(2, S_attrlist),
     ObjToken(1, <<97>>) \o ObjToken(2, S_depth),
     ObjToken(1, <<97>>) \o ObjToken(2, S_depth) \o ObjToken(2, <<98>>),
     PropToken(S_depth, CH_I, 1, pack_i(7)) \o ObjToken(1, <<97>>)}

\* the lengths of the property names "xx...x" a file may hold beyond the short
\* ones: the largest a signed byte holds, and one more
NameLengths == {127, 128}

\* streams of one integer property with a long name
LongNameStreams == {PropToken([k \in 1..n |-> 120], CH_I, 1, pack_i(7)) : n \in NameLengths}

\* what the file at filepath may hold before anything is called
FilesOnDisk ==
    {Absent} \cup ShortFiles
    \cup {h \o c : h \in WrongHeaders, c \in Chunks \cup {<<>>}}
    \cup {Magic \o ts : ts \in TokenStreams \cup ChunkStreams \cup TruncatedStreams
                              \cup NameClashStreams \cup LongNameStreams}

\* the longest attribute value a tree to write holds
MaxLen == 2

\* the items of attribute values: -2, 1.5, 0.1 (a double that is no float32),
\* "hi"
Items == {<<"int", -2>>, <<"float", 1069547520, 0>>, <<"float", 1036831948, 429496730>>,
          <<"str", <<104, 105>>>>}

\* the strings of single-string values: "", "hi", "\xe9" (Latin-1, not ASCII),
\* and "a\x00" (ending in a zero character)
Strings == {<<>>, <<104, 105>>, <<233>>, <<97, 0>>}

Values == UNION {[1..n -> Items] : n \in 0..MaxLen} \cup {<< <<"str", s>> >> : s \in Strings}

\* the lengths of the object tags "xx...x" a tree to write may hold
TagLengths == {0, 63, 64}

LongTag(n) == [k \in 1..n |-> 120]

\* tags and parents of the trees to write; "a" is a shape, "b" a bone, "c" a locator node
Skeletons ==
    {<< <<S_File, 0>> >>,
     << <<S_object, 0>> >>,
     << <<S_File, 0>>, <<S_object, 1>> >>,
     << <<S_File, 0>>, <<S_object, 1>>, <<<<97>>, 2>> >>,
     << <<S_File, 0>>, <<S_object, 1>>, <<<<97>>, 2>>, <<<<97>>, 2>> >>,
     << <<S_File, 0>>, <<S_object, 1>>, <<<<97>>, 2>>, <<S_mesh, 3>> >>,
     << <<S_File, 0>>, <<S_object, 1>>, <<<<97>>, 2>>, <<S_mesh, 3>>, <<S_mesh, 3>> >>,
     << <<S_File, 0>>, <<S_object, 1>>, <<<<97>>, 2>>, <<S_mesh, 3>>, <<S_aabb, 4>> >>,
     << <<S_File, 0>>, <<S_object, 1>>, <<<<97>>, 2>>, <<S_mesh, 3>>, <<S_material, 4>> >>,
     << <<S_File, 0>>, <<S_object, 1>>, <<<<97>>, 2>>, <<S_mesh, 3>>, <<S_skin, 4>>, <<S_aabb, 4>> >>,
     << <<S_File, 0>>, <<S_object, 1>>, <<<<97>>, 2>>, <<S_skeleton, 3>>, <<<<98>>, 4>> >>,
     << <<S_File, 0>>, <<S_object, 1>>, <<<<97>>, 2>>, <<S_skeleton, 3>>, <<S_mesh, 3>> >>,
     << <<S_File, 0>>, <<S_locator, 1>>, <<<<99>>, 2>> >>,
     << <<S_File, 0>>, <<S_object, 1>>, <<S_locator, 1>> >>,
     << <<S_File, 0>>, <<S_locator, 1>>, <<S_object, 1>>, <<<<97>>, 3>> >>,
     << <<S_File, 0>>, <<S_info, 1>> >>,
     << <<S_File, 0>>, <<S_info, 1>>, <<<<98>>, 2>> >>,
     << <<S_File, 0>>, <<S_samples, 1>> >>,
     << <<S_File, 0>>, <<S_info, 1>>, <<S_samples, 1>> >>,
     << <<S_File, 0>>, <<S_samples, 1>>, <<S_info, 1>>, <<<<98>>, 3>> >>,
     << <<<<97>>, 0>>, <<S_object, 1>>, <<S_info, 1>>, <<<<97>>, 2>> >>}
    \cup {<< <<S_File, 0>>, <<S_object, 1>>, <<LongTag(n), 2>> >> : n \in TagLengths}
    \cup {<< <<S_File, 0>>, <<S_object, 1>>, <<<<97>>, 2>>, <<LongTag(n), 3>> >> : n \in TagLengths}
    \cup {<< <<S_File, 0>>, <<S_info, 1>>, <<LongTag(n), 2>> >> : n \in TagLengths}

\* the attribute name a tree to write may set on an element with this tag
NameFor(tag) ==
    CASE tag = S_mesh -> S_p
      [] tag = S_aabb -> S_min
      [] tag = S_material -> S_shader
      [] tag = S_skin -> S_ix
      [] tag = S_info -> S_fps
      [] tag = S_samples -> S_t
      [] tag = <<97>> -> S_lod
      [] tag = <<98>> -> S_sa
      [] OTHER -> S_p

\* what the root's pdxasset attribute may be: not set, [1, 0], []
PdxassetChoices == {<<>>, << <<S_pdxasset, << <<"int", 1>>, <<"int", 0>> >> >> >>, << <<S_pdxasset, <<>> >> >>}

\* the tree with the tags and parents of sk, the root attributes pdx, and the
\* attribute NameFor(tag) = value on element k (on none when k = 0)
MkTree(sk, pdx, k, value) ==
    [n \in 1..Len(sk) |->
        [tag |-> sk[n][1], parent |-> sk[n][2],
         attrib |-> (IF n = 1 THEN pdx ELSE <<>>)
                    \o (IF n = k THEN << <<NameFor(sk[n][1]), value>> >> ELSE <<>>)]]

\* a name no writer lists
S_zz == <<122, 122>>

\* pairs of attribute names, in the order the writers list them, that a tree to
\* write may set together on an element with this tag
NamePairs(tag) ==
    CASE tag = S_mesh -> {<<S_p, S_tri>>, <<S_n, S_u0>>}
      [] tag = S_aabb -> {<<S_min, S_max>>}
      [] tag = S_material -> {<<S_diff, S_spec>>}
      [] tag = S_skin -> {<<S_bones, S_ix>>}
      [] tag = S_info -> {<<S_fps, S_sa>>}
      [] tag = S_samples -> {<<S_t, S_q>>}
      [] tag = <<97>> -> {<<S_lod, S_zz>>}
      [] tag = <<98>> -> {<<S_ix, S_pa>>, <<S_sa, S_t>>}
      [] OTHER -> {<<S_p, S_q>>}

\* the orders in which the two attributes, and one the writers do not list, may
\* have been set: a = [1], b = [1.5], zz = [2]
AttribOrders(pair) ==
    LET a == <<pair[1], << <<"int", 1>> >> >>
        b == <<pair[2], << <<"float", 1069547520, 0>> >> >>
        z == <<S_zz, << <<"int", 2>> >> >>
    IN  {<<a, b>>, <<b, a>>, <<z, b, a>>}

\* the tree with the tags and parents of sk, pdxasset = [1, 0], and the
\* attributes attrib on element k
MkTree2(sk, k, attrib) ==
    [n \in 1..Len(sk) |->
        [tag |-> sk[n][1], parent |-> sk[n][2],
         attrib |-> IF n = 1 THEN << <<S_pdxasset, << <<"int", 1>>, <<"int", 0>> >> >> >>
                    ELSE IF n = k THEN attrib ELSE <<>>]]

\* integer values at and beyond the ends of the range of format "i":
\* [2^31 - 1], [-2^31], [2^31], [-2^31 - 1], [2^32 + 5], [1, 2^31]
IntRangeValues ==
    {<< <<"int", 2147483647>> >>, << <<"int", -2147483647 - 1>> >>,
     << <<"int", -2147483647 - 1, 1>> >>, << <<"int", 2147483647, -1>> >>,
     << <<"int", 5, 1>> >>, << <<"int", 1>>, <<"int", -2147483647 - 1, 1>> >>}

\* a mesh and an animation that hold one of them each
IntRangeTrees ==
    {MkTree2(<< <<S_File, 0>>, <<S_object, 1>>, <<<<97>>, 2>>, <<S_mesh, 3>> >>, 4, << <<S_tri, v>> >>)
        : v \in IntRangeValues}
    \cup {MkTree2(<< <<S_File, 0>>, <<S_info, 1>> >>, 2, << <<S_fps, v>> >>) : v \in IntRangeValues}

\* trees with children write_meshfile does not visit: a second aabb and a
\* child "d" of a bone; a second object and a child "d" of a locator node
UnvisitedSkeletons ==
    {<< <<S_File, 0>>, <<S_object, 1>>, <<<<97>>, 2>>, <<S_mesh, 3>>, <<S_aabb, 4>>, <<S_aabb, 4>>,
        <<S_skeleton, 3>>, <<<<98>>, 7>>, <<<<100>>, 8>> >>,
     << <<S_File, 0>>, <<S_object, 1>>, <<S_object, 1>>, <<S_locator, 1>>, <<<<99>>, 4>>, <<<<100>>, 5>> >>}

\* one element of such a tree holds [1], or [-2, 1.5], a list no property can hold
UnvisitedTrees ==
    UNION {{MkTree(sk, << <<S_pdxasset, << <<"int", 1>>, <<"int", 0>> >> >> >>, k, v)
               : k \in 2..Len(sk), v \in {<< <<"int", 1>> >>, << <<"int", -2>>, <<"float", 1069547520, 0>> >>}}
           : sk \in UnvisitedSkeletons}

TreesToWrite ==
    IntRangeTrees \cup UnvisitedTrees \cup
    {MkTree(sk, pdx, 0, <<>>) : sk \in Skeletons, pdx \in PdxassetChoices}
    \cup UNION {{MkTree(sk, pdx, k, v) : k \in 2..Len(sk), v \in Values}
                : sk \in Skeletons, pdx \in PdxassetChoices}
    \cup UNION {UNION {UNION {{MkTree2(sk, k, at) : at \in AttribOrders(pair)}
                              : pair \in NamePairs(sk[k][1])}
                       : k \in 2..Len(sk)}
                : sk \in Skeletons}

\* what the file at filepath may hold before a tree is written to it
FilesToOverwrite == {Absent, Magic}

\* ---------------------------------------------------------------- state
VARIABLES
    file,            \* the bytes of the file at filepath, or Absent
    root_xml,        \* the tree the caller holds to write, or NoTree
    wkind,           \* the writer that wrote `file`: "mesh", "anim", or "none"
    werr,            \* the exception the last writer call raised, or NoErr
    pc,              \* "idle", "written", "wfailed", "loop" (at `while pos < eof`),
                     \* "branch" (next_char read), "done", "failed", "rewritten", "refailed"
    fdata,           \* read_meshfile: the bytes read
    pos,             \* read_meshfile: the read position
    elems,           \* read_meshfile: the tree under file_element
    parent_element,  \* read_meshfile: index of the current parent
    depth_list,      \* read_meshfile: indices of the ancestors
    current_depth,   \* read_meshfile: depth of the last object read
    err,             \* the exception read_meshfile raised, or NoErr
    result,          \* the tree read_meshfile returned, or NoTree
    constructed,     \* IO_PDX_SETTINGS = PDXsettings(config_path) has run
    settings,        \* IO_PDX_SETTINGS.__dict__: attribute name -> value
    config_file,     \* the file at config_path
    writable,        \* the file at config_path can be created and written
    today,           \* date.today(), as a day number
    github,          \* the fields of the Github_API object
    requested,       \* the last refresh call asked the network for the releases
    raised           \* the exception that left the last settings or updater call, or NoErr

\* the state of settings.py and updater.py
appVars == <<constructed, settings, config_file, writable, today, github, requested, raised>>

\* the state of pdx_data.py
codecVars == <<file, root_xml, wkind, werr, pc, fdata, pos, elems, parent_element, depth_list,
               current_depth, err, result>>

vars == <<file, root_xml, wkind, werr, pc, fdata, pos, elems, parent_element, depth_list,
          current_depth, err, result, constructed, settings, config_file, writable, today,
          github, requested, raised>>

readerVars == <<fdata, pos, elems, parent_element, depth_list, current_depth, err, result>>

\* ---------------------------------------------------------------- settings values
\* a Python value of a setting: a string, a float, a dict, the text of a date,
\* a set (which json cannot write), None
Str(n) == <<"str", n>>
Float(n) == <<"float", n>>
Dict(n) == <<"dict", n>>
DateStr(day) == <<"date", day>>
ASet == <<"set", 0>>
PyNone == <<"None", 0>>

\* a dict with no key
EmptyDict == [name \in {} |-> PyNone]

\* no file at config_path
NoConfigFile == [exists |-> FALSE, whole |-> FALSE, items |-> EmptyDict]

\* Github_API.__init__, before its call of refresh
NewGithub ==
    [LATEST_VERSION |-> Float(0), LATEST_URL |-> Str(0), LATEST_NOTES |-> Str(0),
     AT_LATEST |-> FALSE]

\* the package is not imported: no settings object, no updater
AppOff ==
    /\ constructed = FALSE
    /\ settings = EmptyDict
    /\ config_file = NoConfigFile
    /\ writable = TRUE
    /\ today = 1
    /\ github = NewGithub
    /\ requested = FALSE
    /\ raised = NoErr

Init ==
    /\ AppOff
    /\ \/ file \in FilesOnDisk /\ root_xml = NoTree
       \/ file \in FilesToOverwrite /\ root_xml \in TreesToWrite
    /\ wkind = "none"
    /\ werr = NoErr
    /\ pc = "idle"
    /\ fdata = <<>>
    /\ pos = 0
    /\ elems = <<>>
    /\ parent_element = 0
    /\ depth_list = <<>>
    /\ current_depth = 0
    /\ err = NoErr
    /\ result = NoTree

\* ---------------------------------------------------------------- read_meshfile
\* a header check that compares only the first three bytes
HeaderOk_first3(header) == SubSeq(header, 1, 3) = SubSeq(Magic, 1, 3)

\* bytes(b"".join(header)) == b"@@b@"
HeaderOk(header) == header = Magic

\* raise: the exception leaves read_meshfile, nothing is returned
Fail(r) ==
    /\ pc' = "failed"
    /\ err' = ErrOf(r)
    /\ UNCHANGED <<pos, elems, parent_element, depth_list, current_depth, result>>

\* open, mmap and read the file, check the header, set up the loop
read_meshfile_open ==
    /\ \/ pc = "idle" /\ root_xml = NoTree
       \/ pc \in {"written", "wfailed"}
    /\ UNCHANGED <<file, root_xml, wkind, werr>>
    /\ UNCHANGED appVars
    /\ IF file = Absent THEN
           /\ fdata' = <<>>
           /\ Fail(Raise("IOError", "No such file or directory"))
       ELSE
           /\ fdata' = file
           /\ IF file = <<>> THEN Fail(Raise("ValueError", "cannot mmap an empty file"))
              ELSE IF ~CanUnpack(file, 0, 4)
                   THEN Fail(Raise("struct.error", "unpack_from requires a buffer"))
              ELSE IF ~HeaderOk(SubSeq(file, 1, 4))
                   THEN Fail(Raise("NotImplementedError", "Unknown file header."))
              ELSE /\ pc' = "loop"
                   /\ pos' = 4
                   /\ elems' = <<Element(S_File)>>
                   /\ parent_element' = 1
                   /\ depth_list' = <<1>>
                   /\ current_depth' = 0
                   /\ UNCHANGED <<err, result>>

\* `while pos < eof` was entered and next_char was read and decoded: the branch
\* on next_char is next
AtToken == pc = "branch"

\* the loop ends: return file_element
read_meshfile_return ==
    /\ pc = "loop" /\ ~(pos < Len(fdata))
    /\ pc' = "done"
    /\ result' = elems
    /\ UNCHANGED <<file, root_xml, wkind, werr, fdata, pos, elems, parent_element, depth_list,
                   current_depth, err>>
    /\ UNCHANGED appVars

\* the loop goes on: next_char is read and decoded, or that raises
read_meshfile_next_char ==
    /\ pc = "loop" /\ pos < Len(fdata)
    /\ IF ~CanUnpack(fdata, pos, 1) THEN Fail(Raise("struct.error", "offset out of range"))
       ELSE IF ~DecodesAsUtf8(unpack_c(fdata, pos))
            THEN Fail(Raise("UnicodeDecodeError", "can't decode byte"))
       ELSE /\ pc' = "branch"
            /\ UNCHANGED <<pos, elems, parent_element, depth_list, current_depth, err, result>>
    /\ UNCHANGED <<file, root_xml, wkind, werr, fdata>>
    /\ UNCHANGED appVars

\* depth_list after `if not depth > current_depth: depth_list = depth_list[:depth]`
Reconcile(dl, depth, cur) == IF ~(depth > cur) THEN SubSeq(dl, 1, Min2(depth, Len(dl))) ELSE dl

\* a reconciliation that goes back to the root instead of the last ancestor kept
ReconciledParent_root(dl, depth, cur, parent) == IF ~(depth > cur) THEN dl[1] ELSE parent

\* parent_element after `if not depth > current_depth: ... parent_element = depth_list[-1]`
ReconciledParent(dl, depth, cur, parent) ==
    IF ~(depth > cur) THEN Last(Reconcile(dl, depth, cur)) ELSE parent

\* an object branch that leaves parent_element at the parent of the new element
UpdatedParent_stale(new_element, parent) == parent

\* parent_element after `parent_element = new_element`
UpdatedParent(new_element, parent) == new_element

\* next_char == "[": an object
read_meshfile_object ==
    /\ AtToken /\ unpack_c(fdata, pos) = CH_OBJ
    /\ UNCHANGED <<file, root_xml, wkind, werr, fdata>>
    /\ UNCHANGED appVars
    /\ LET r == parseObject(fdata, pos) IN
       IF ~r.ok THEN Fail(r)
       ELSE LET dl == Reconcile(depth_list, r.objdepth, current_depth)
                parent == ReconciledParent(depth_list, r.objdepth, current_depth, parent_element)
                new_element == Len(elems) + 1
            IN  /\ pos' = r.pos
                /\ elems' = Append(elems, [tag |-> r.obj_name, parent |-> parent, attrib |-> <<>>])
                /\ parent_element' = UpdatedParent(new_element, parent)
                /\ depth_list' = Append(dl, UpdatedParent(new_element, parent))
                /\ current_depth' = r.objdepth
                /\ pc' = "loop"
                /\ UNCHANGED <<err, result>>

\* next_char == "!": a property of the current parent
read_meshfile_property ==
    /\ AtToken /\ unpack_c(fdata, pos) = CH_PROP
    /\ UNCHANGED <<file, root_xml, wkind, werr, fdata>>
    /\ UNCHANGED appVars
    /\ LET r == parseProperty(fdata, pos) IN
       IF ~r.ok THEN Fail(r)
       ELSE /\ pos' = r.pos
            /\ elems' = [elems EXCEPT ![parent_element].attrib = set(@, r.prop_name, r.prop_values)]
            /\ pc' = "loop"
            /\ UNCHANGED <<parent_element, depth_list, current_depth, err, result>>

\* any other next_char
read_meshfile_unknown ==
    /\ AtToken /\ unpack_c(fdata, pos) \notin {CH_OBJ, CH_PROP}
    /\ Fail(Raise("NotImplementedError", "Unknown object encountered."))
    /\ UNCHANGED <<file, root_xml, wkind, werr, fdata>>
    /\ UNCHANGED appVars

\* ---------------------------------------------------------------- the writers
\* the tree a writer is called with: the caller's tree, or the tree just read
\* from the file the same writer wrote
CanWrite(kind) ==
    \/ pc = "idle" /\ root_xml # NoTree
    \/ pc = "done" /\ wkind = kind

TreeToWrite == IF pc = "idle" THEN root_xml ELSE result

\* a writer that opens the file for writing before it builds datastring: a
\* failure leaves an empty file behind
WriteFile_openFirst(r) ==
    /\ IF r.ok THEN /\ file' = r.data
                    /\ werr' = NoErr
                    /\ pc' = IF pc = "idle" THEN "written" ELSE "rewritten"
       ELSE /\ file' = <<>>
            /\ werr' = ErrOf(r)
            /\ pc' = IF pc = "idle" THEN "wfailed" ELSE "refailed"
    /\ UNCHANGED <<root_xml, readerVars>>

\* `with open(filepath, "wb") as fp: fp.write(datastring)`, reached only when
\* building datastring raised nothing
WriteFile(r) ==
    /\ IF r.ok THEN /\ file' = r.data
                    /\ werr' = NoErr
                    /\ pc' = IF pc = "idle" THEN "written" ELSE "rewritten"
       ELSE /\ file' = file
            /\ werr' = ErrOf(r)
            /\ pc' = IF pc = "idle" THEN "wfailed" ELSE "refailed"
    /\ UNCHANGED <<root_xml, readerVars>>

write_meshfile ==
    /\ CanWrite("mesh")
    /\ WriteFile(write_meshfile_data(TreeToWrite))
    /\ wkind' = IF write_meshfile_data(TreeToWrite).ok THEN "mesh" ELSE wkind
    /\ UNCHANGED appVars

write_animfile ==
    /\ CanWrite("anim")
    /\ WriteFile(write_animfile_data(TreeToWrite))
    /\ wkind' = IF write_animfile_data(TreeToWrite).ok THEN "anim" ELSE wkind
    /\ UNCHANGED appVars

Next ==
    \/ write_meshfile
    \/ write_animfile
    \/ read_meshfile_open
    \/ read_meshfile_return
    \/ read_meshfile_next_char
    \/ read_meshfile_object
    \/ read_meshfile_property
    \/ read_meshfile_unknown

Spec == Init /\ [][Next]_vars

\* a step of read_meshfile
ReadStep ==
    \/ read_meshfile_open
    \/ read_meshfile_return
    \/ read_meshfile_next_char
    \/ read_meshfile_object
    \/ read_meshfile_property
    \/ read_meshfile_unknown

\* read_meshfile runs on one thread from its call to its return or raise: while
\* it has a step to take, it takes it
FairSpec == Spec /\ WF_vars(ReadStep)

\* ---------------------------------------------------------------- what the claims speak of
\* the place of element n in the document of a writer: the kind of node the
\* writer treats it as, "none" when the writer never reaches it
RECURSIVE RoleOf(_, _, _)
RoleOf(t, n, kind) ==
    IF t[n].parent = 0 THEN "root"
    ELSE LET pr == RoleOf(t, t[n].parent, kind)
             tag == t[n].tag
         IN  IF kind = "mesh" THEN
                 CASE pr = "root" /\ tag = S_object -> "object"
                   [] pr = "root" /\ tag = S_locator -> "locator"
                   [] pr = "object" -> "shape"
                   [] pr = "shape" /\ tag = S_mesh -> "mesh"
                   [] pr = "shape" /\ tag = S_skeleton -> "skeleton"
                   [] pr = "shape" /\ tag \notin {S_mesh, S_skeleton} -> "other"
                   [] pr = "mesh" /\ tag = S_aabb -> "aabb"
                   [] pr = "mesh" /\ tag = S_material -> "material"
                   [] pr = "mesh" /\ tag = S_skin -> "skin"
                   [] pr = "skeleton" -> "bone"
                   [] pr = "locator" -> "node"
                   [] OTHER -> "none"
             ELSE
                 CASE pr = "root" /\ tag = S_info -> "info"
                   [] pr = "root" /\ tag = S_samples -> "samples"
                   [] pr = "info" -> "animbone"
                   [] OTHER -> "none"

\* the attribute names the writers list for a node of that kind
SchemaProps(role) ==
    CASE role = "root" -> <<S_pdxasset>>
      [] role = "shape" -> <<S_lod>>
      [] role = "mesh" -> <<S_p, S_n, S_ta, S_u0, S_u1, S_u2, S_u3, S_tri, S_boundingsphere>>
      [] role = "aabb" -> <<S_min, S_max>>
      [] role = "material" -> <<S_shader, S_diff, S_n, S_spec>>
      [] role = "skin" -> <<S_bones, S_ix, S_w>>
      [] role = "bone" -> <<S_ix, S_pa, S_tx>>
      [] role = "node" -> <<S_p, S_q, S_pa, S_tx>>
      [] role = "info" -> <<S_fps, S_sa, S_j>>
      [] role = "animbone" -> <<S_sa, S_t, S_q, S_s>>
      [] role = "samples" -> <<S_t, S_q, S_s>>
      [] OTHER -> <<>>

\* the child tags a writer emits once each and in a fixed order under a node
SchemaChildren(role, kind) ==
    CASE role = "root" /\ kind = "mesh" -> <<S_object, S_locator>>
      [] role = "root" /\ kind = "anim" -> <<S_info, S_samples>>
      [] role = "mesh" -> <<S_aabb, S_material, S_skin>>
      [] OTHER -> <<>>

SeqRange(q) == {q[k] : k \in 1..Len(q)}
IndexIn(q, x) == CHOOSE k \in 1..Len(q) : q[k] = x

\* an integer array, a float32 array or a single string
SchemaValue(v) ==
    /\ v # None
    /\ Cardinality(TypesOf(v)) <= 1
    /\ TypesOf(v) = {"str"} => Len(v) = 1
    /\ \A k \in 1..Len(v) : v[k][1] = "float" => v[k][3] = 0

\* t is a tree of the document kind: File at the root with an integer pdxasset,
\* every element at a place the writer of that kind emits, under a node with a
\* fixed child order no tag twice and the tags in that order, and on every
\* element only attributes its place lists, holding schema values
Conforms(t, kind) ==
    /\ t[1].tag = S_File
    /\ get(t[1], S_pdxasset) # None
    /\ TypesOf(get(t[1], S_pdxasset)) \subseteq {"int"}
    /\ \A n \in 1..Len(t) :
        LET role == RoleOf(t, n, kind)
            ch == Children(t, n)
            order == SchemaChildren(role, kind)
        IN  /\ role # "none"
            /\ \A a \in 1..Len(t[n].attrib) :
                /\ t[n].attrib[a][1] \in SeqRange(SchemaProps(role))
                /\ SchemaValue(t[n].attrib[a][2])
            /\ order # <<>> =>
                /\ \A c \in 1..Len(ch) : t[ch[c]].tag \in SeqRange(order)
                /\ \A c, d \in 1..Len(ch) :
                    c < d => IndexIn(order, t[ch[c]].tag) < IndexIn(order, t[ch[d]].tag)

\* the same tag, the same attributes with the same values, and the same
\* children in the same order
RECURSIVE SameTree(_, _, _, _)
SameTree(t1, n1, t2, n2) ==
    /\ t1[n1].tag = t2[n2].tag
    /\ SeqRange(t1[n1].attrib) = SeqRange(t2[n2].attrib)
    /\ Len(Children(t1, n1)) = Len(Children(t2, n2))
    /\ \A c \in 1..Len(Children(t1, n1)) :
        SameTree(t1, Children(t1, n1)[c], t2, Children(t2, n2)[c])

\* the file was written by a writer and read_meshfile has read it
ReadBack == wkind # "none" /\ pc \in {"done", "failed"}

\* this step reads an object token: a new element is created
ObjectStep == AtToken /\ Len(elems') = Len(elems) + 1

\* this step reads a property token and goes on
PropertyStep == AtToken /\ unpack_c(fdata, pos) = CH_PROP /\ pc' = "loop"

\* read_meshfile has ended
ReadEnded == pc \in {"done", "failed"}

\* read_meshfile raised at a token that starts at pos, behind a good header
FailedAtToken ==
    /\ pc = "failed"
    /\ Len(fdata) >= 4 /\ HeaderOk(SubSeq(fdata, 1, 4))
    /\ pos >= 4 /\ pos < Len(fdata)

\* ---------------------------------------------------------------- the claims
\* C1: Round-trip. For every tree of a document kind that the writer accepts
\* (File root with pdxasset, only schema-listed attributes, integer arrays,
\* float arrays or a single string, arrays of any length, 0 included),
\* read_meshfile of the bytes written returns a tree with the same tags, the
\* same attribute values and the same child order.
C1_RoundTrip ==
    (ReadBack /\ Conforms(root_xml, wkind)) =>
        (pc = "done" /\ SameTree(result, 1, root_xml, 1))

\* C2: Byte-exact idempotence. For every buffer B a writer produced, decoding B
\* and writing the decoded tree with the same writer gives B byte for byte.
C2_ByteExactIdempotence ==
    wkind # "none" =>
        /\ pc \notin {"failed", "refailed"}
        /\ pc = "rewritten" => file = fdata

\* C3: Depth reconciliation. When an object token of depth d, d not greater
\* than the depth of the object read before, is read, the ancestor stack is
\* cut to d entries and the new element becomes a child of the ancestor at
\* depth d - 1.
C3_DepthReconciliation ==
    [][(ObjectStep /\ ~(current_depth' > current_depth)) =>
        /\ Len(depth_list) >= current_depth'
        /\ depth_list' = Append(SubSeq(depth_list, 1, current_depth'), Len(elems'))
        /\ elems'[Len(elems')].parent = depth_list[current_depth']
        /\ PDXData_depth(elems', elems'[Len(elems')].parent) = current_depth' - 1]_vars

\* C4: For every token stream, an object token whose run of markers is no
\* longer than that of the object token right before it never becomes a child
\* of that object; with an equal run it becomes its sibling.
C4_NoNestingUnderShallowerOrEqual ==
    [][(ObjectStep /\ Len(elems) >= 2 /\ current_depth' <= current_depth) =>
        /\ elems'[Len(elems')].parent # Len(elems)
        /\ current_depth' = current_depth =>
               elems'[Len(elems')].parent = elems[Len(elems)].parent]_vars

\* C5: The depth of every decoded node in the tree model (0 at the root, one
\* more than its parent's otherwise) equals the number of "[" of the object
\* token that created it.
C5_DepthEqualsMarkers ==
    [][ObjectStep => PDXData_depth(elems', Len(elems')) = current_depth']_vars

\* C6: Every property token is attached to the element created by the most
\* recent object token read before it (the root File when none was read), and
\* to no other element.
C6_PropertyOnLastObject ==
    [][PropertyStep =>
        /\ Len(elems') = Len(elems)
        /\ get(elems'[Len(elems)], parseProperty(fdata, pos).prop_name)
               = parseProperty(fdata, pos).prop_values
        /\ \A k \in 1..Len(elems) : k # Len(elems) => elems'[k] = elems[k]]_vars

\* C6 witness: a property sits on an element that was created after a deeper
\* element, so that deeper objects had been opened and closed before it.
C6_Witness ==
    /\ pc \in {"loop", "branch", "done"}
    /\ \E k \in 2..Len(elems) :
        /\ elems[k].attrib # <<>>
        /\ \E d \in 2..(k - 1) : PDXData_depth(elems, d) > PDXData_depth(elems, k)

\* C7: Decode termination. For every finite buffer read_meshfile terminates,
\* returning a tree or failing: the parse loop cannot run forever.
C7_DecodeTerminates == (pc = "loop") ~> ReadEnded

\* C8: For every buffer whose first 4 bytes are not the magic "@@b@",
\* read_meshfile fails with the "Unknown file header" error and returns no tree.
C8_WrongHeaderRejected ==
    (pc \in {"loop", "branch", "done", "failed", "rewritten", "refailed"}
        /\ Len(fdata) >= 4 /\ SubSeq(fdata, 1, 4) # Magic) =>
        /\ pc = "failed"
        /\ err.kind = "NotImplementedError"
        /\ err.msg = "Unknown file header."
        /\ result = NoTree

\* C8 witness: a file of four bytes or more with another header was read and
\* rejected.
C8_Witness ==
    /\ pc = "failed"
    /\ Len(fdata) >= 4 /\ SubSeq(fdata, 1, 4) # Magic
    /\ err.msg = "Unknown file header."

\* C9: For every byte other than "[" and "!" where a token must start, bytes
\* 0x80..0xFF included, read_meshfile fails with the "Unknown object
\* encountered" error and with no other kind of failure.
C9_UnknownTokenByte ==
    (FailedAtToken /\ unpack_c(fdata, pos) \notin {CH_OBJ, CH_PROP}) =>
        /\ err.kind = "NotImplementedError"
        /\ err.msg = "Unknown object encountered."

\* the offset of the data-type byte of the property token that starts at pos
TypeByteOffset == pos + 2 + unpack_b(fdata, pos + 1)

\* C10: When the data-type byte of a property is none of "i", "f", "s" (the
\* count after it being readable), decoding fails with the format error and
\* the position the error reports is the offset of that byte.
C10_UnknownDataTypePosition ==
    (/\ FailedAtToken /\ unpack_c(fdata, pos) = CH_PROP
     /\ CanUnpack(fdata, pos + 1, 1) /\ unpack_b(fdata, pos + 1) >= 1
     /\ CanUnpack(fdata, TypeByteOffset + 1, 4)
     /\ DecodesAsUtf8(unpack_c(fdata, TypeByteOffset))
     /\ unpack_c(fdata, TypeByteOffset) \notin {CH_I, CH_F, CH_S}) =>
        /\ err.kind = "NotImplementedError"
        /\ err.msg = "Unknown data type encountered."
        /\ err.haspos /\ err.pos = TypeByteOffset

\* ---------------------------------------------------------------- the writers' claims
\* the kinds of node a writer looks up with find(): only the first child with
\* the tag is written
FoundRoles == {"object", "locator", "info", "samples", "aabb", "material", "skin"}

\* the writer of that kind emits an object token for element n (the root has
\* none, and is visited)
RECURSIVE Emitted(_, _, _)
Emitted(t, n, kind) ==
    \/ t[n].parent = 0
    \/ /\ RoleOf(t, n, kind) # "none"
       /\ Emitted(t, t[n].parent, kind)
       /\ RoleOf(t, n, kind) \in FoundRoles => find(t, t[n].parent, t[n].tag) = n

\* the writer of that kind passes attribute a of element n to writeProperty
EmittedAttr(t, n, a, kind) ==
    /\ Emitted(t, n, kind)
    /\ t[n].attrib[a][1] \in SeqRange(SchemaProps(RoleOf(t, n, kind)))
    /\ t[n].attrib[a][2] # None

\* the step is a call of the writer of that kind
WriteStep(kind) == IF kind = "mesh" THEN write_meshfile ELSE write_animfile

\* the writer called in this step raised
WriteFailed == pc' \in {"wfailed", "refailed"}

\* no object tag of t is too long for writeObject
TagsFit(t) == \A n \in 1..Len(t) : writeObject(t[n].tag, 1).ok

\* C11: Writing a tree (File root, pdxasset set) in which an attribute the
\* writer encodes holds both integers and floats fails with NotImplementedError
\* ("Mixed data types encountered." when no tag is too long), and the file at
\* filepath is as it was before the call: no byte is written.
C11_MixedIntFloatRejected ==
    [][\A kind \in {"mesh", "anim"} :
        (/\ pc \in {"idle", "done"}
         /\ WriteStep(kind)
         /\ TreeToWrite[1].tag = S_File /\ get(TreeToWrite[1], S_pdxasset) # None
         /\ \E n \in 1..Len(TreeToWrite) : \E a \in 1..Len(TreeToWrite[n].attrib) :
                /\ EmittedAttr(TreeToWrite, n, a, kind)
                /\ TypesOf(TreeToWrite[n].attrib[a][2]) = {"int", "float"}) =>
            /\ WriteFailed
            /\ werr'.kind = "NotImplementedError"
            /\ TagsFit(TreeToWrite) => werr'.msg = "Mixed data types encountered."
            /\ file' = file]_vars

\* C11 witness: a writer was called with an array of an integer and a float and
\* raised the mixed-types error.
C11_Witness ==
    /\ pc = "wfailed"
    /\ werr.msg = "Mixed data types encountered."
    /\ \E n \in 1..Len(root_xml) : \E a \in 1..Len(root_xml[n].attrib) :
           TypesOf(root_xml[n].attrib[a][2]) = {"int", "float"}

\* C12: Writing a tree (File root, pdxasset set) in which an attribute the
\* writer encodes holds more than one string fails with NotImplementedError
\* and leaves the file as it was: no string is dropped from the output.
C12_MultiStringRejected ==
    [][\A kind \in {"mesh", "anim"} :
        (/\ pc \in {"idle", "done"}
         /\ WriteStep(kind)
         /\ TreeToWrite[1].tag = S_File /\ get(TreeToWrite[1], S_pdxasset) # None
         /\ \E n \in 1..Len(TreeToWrite) : \E a \in 1..Len(TreeToWrite[n].attrib) :
                /\ EmittedAttr(TreeToWrite, n, a, kind)
                /\ TypesOf(TreeToWrite[n].attrib[a][2]) = {"str"}
                /\ Len(TreeToWrite[n].attrib[a][2]) > 1) =>
            /\ WriteFailed
            /\ werr'.kind = "NotImplementedError"
            /\ file' = file]_vars

\* C13: Name-length rejection. A writer call (File root, pdxasset set) that
\* passes a tag of 64 characters or more to writeObject fails with
\* NotImplementedError and leaves the file as it was; the name-length error is
\* raised for no tag of length 0..63.
C13_NameLengthRejection ==
    [][\A kind \in {"mesh", "anim"} :
        (/\ pc \in {"idle", "done"}
         /\ WriteStep(kind)
         /\ TreeToWrite[1].tag = S_File /\ get(TreeToWrite[1], S_pdxasset) # None) =>
            LET TooLong == \E n \in 2..Len(TreeToWrite) :
                               Emitted(TreeToWrite, n, kind) /\ Len(TreeToWrite[n].tag) >= 64
            IN  /\ TooLong => /\ WriteFailed
                              /\ werr'.kind = "NotImplementedError"
                              /\ file' = file
                /\ (WriteFailed /\ werr'.msg = "Object name is longer than 64 characters")
                       => TooLong]_vars

\* C13 witness: a writer met a tag of exactly 64 characters and raised the
\* name-length error.
C13_Witness ==
    /\ pc = "wfailed"
    /\ werr.msg = "Object name is longer than 64 characters"
    /\ \E n \in 2..Len(root_xml) : Len(root_xml[n].tag) = 64

\* C14: write_meshfile and write_animfile called with a root whose tag is not
\* "File" fail with NotImplementedError "Unknown XML root encountered.",
\* whatever the root's attributes and children are, and the file at filepath is
\* neither created nor changed.
C14_UnknownRootRejected ==
    [][\A kind \in {"mesh", "anim"} :
        (/\ pc \in {"idle", "done"}
         /\ WriteStep(kind)
         /\ TreeToWrite[1].tag # S_File) =>
            /\ WriteFailed
            /\ werr'.kind = "NotImplementedError"
            /\ werr'.msg = "Unknown XML root encountered."
            /\ file' = file]_vars

\* C14 witness: a writer was called with a root that is not File, has pdxasset
\* and children, no file was at filepath, and none is there after the error.
C14_Witness ==
    /\ pc = "wfailed"
    /\ werr.msg = "Unknown XML root encountered."
    /\ Len(root_xml) > 1 /\ get(root_xml[1], S_pdxasset) # None
    /\ file = Absent

\* C15: No partial file. A call of write_meshfile or write_animfile that fails,
\* at whatever node or attribute of the tree, leaves the file at filepath
\* exactly as it was before the call; a call that succeeds leaves the complete
\* byte string of the tree in it.
C15_NoPartialFile ==
    [][\A kind \in {"mesh", "anim"} :
        (pc \in {"idle", "done"} /\ WriteStep(kind)) =>
            LET r == IF kind = "mesh" THEN write_meshfile_data(TreeToWrite)
                     ELSE write_animfile_data(TreeToWrite)
            IN  /\ WriteFailed <=> ~r.ok
                /\ WriteFailed => file' = file
                /\ ~WriteFailed => file' = r.data]_vars

\* C15 witness: a file was at filepath, a writer failed on an attribute of an
\* element three levels or more below the root, after the bytes of the header
\* and of the elements above had been built, and the file is as it was.
C15_Witness ==
    /\ pc = "wfailed"
    /\ file = Magic
    /\ werr.msg = "Mixed data types encountered."
    /\ \E n \in 1..Len(root_xml) :
        /\ PDXData_depth(root_xml, n) >= 3
        /\ \E a \in 1..Len(root_xml[n].attrib) :
               Cardinality(TypesOf(root_xml[n].attrib[a][2])) > 1

\* the byte string the writer of that kind builds for t, or the exception
WriterData(kind, t) ==
    IF kind = "mesh" THEN write_meshfile_data(t) ELSE write_animfile_data(t)

Reverse(q) == [k \in 1..Len(q) |-> q[Len(q) + 1 - k]]

\* t with the attributes of every element set in the opposite order
Reversed(t) == [n \in 1..Len(t) |-> [t[n] EXCEPT !.attrib = Reverse(@)]]

\* names holds names of schema only, each once, in the order of schema
InOrderOf(names, schema) ==
    /\ \A k \in 1..Len(names) : names[k] \in SeqRange(schema)
    /\ \A j, k \in 1..Len(names) :
           j < k => IndexIn(schema, names[j]) < IndexIn(schema, names[k])

\* the attributes of t, as <<element, position>>, that the writer of that kind
\* passes to writeProperty
EmittedAttrs(t, kind) ==
    {na \in UNION {{<<n, a>> : a \in 1..Len(t[n].attrib)} : n \in 1..Len(t)} :
        EmittedAttr(t, na[1], na[2], kind)}

RECURSIVE CountAttrs(_, _)
CountAttrs(t, n) == IF n = 0 THEN 0 ELSE Len(t[n].attrib) + CountAttrs(t, n - 1)

\* C16: Attribute write order. The bytes written for a tree are those written
\* for the same tree with the attributes of every node set in the opposite
\* order; and in the file, read back, the property tokens after each object
\* token name attributes the schema lists for that node only, in the schema's
\* order, and there are as many tokens as the tree has listed attributes on the
\* nodes that are written.
C16_AttributeWriteOrder ==
    /\ pc = "written" =>
           /\ WriterData(wkind, Reversed(root_xml)).ok
           /\ file = WriterData(wkind, Reversed(root_xml)).data
    /\ (ReadBack /\ pc = "done") =>
           /\ \A m \in 1..Len(result) :
                  InOrderOf([a \in 1..Len(result[m].attrib) |-> result[m].attrib[a][1]],
                            SchemaProps(RoleOf(result, m, wkind)))
           /\ CountAttrs(result, Len(result)) = Cardinality(EmittedAttrs(root_xml, wkind))

\* C16 witness: a tree was written and read back in which a node has an
\* attribute no list names, set first, and two listed attributes set in the
\* order opposite to the list's.
C16_Witness ==
    /\ ReadBack /\ pc = "done"
    /\ \E n \in 2..Len(root_xml) :
        LET at == root_xml[n].attrib
            schema == SchemaProps(RoleOf(root_xml, n, wkind))
        IN  /\ Len(at) = 3
            /\ Emitted(root_xml, n, wkind)
            /\ at[1][1] \notin SeqRange(schema)
            /\ at[2][1] \in SeqRange(schema) /\ at[3][1] \in SeqRange(schema)
            /\ IndexIn(schema, at[3][1]) < IndexIn(schema, at[2][1])

\* the declared order of the children of a node of that kind: the order of
\* SchemaChildren, and under a shape the meshes before the skeleton
ChildOrder(role, kind) ==
    IF role = "shape" THEN <<S_mesh, S_skeleton>> ELSE SchemaChildren(role, kind)

\* C17: Child write order. In every file a writer wrote, read back, the object
\* tokens of the children of each node stand in the declared child order,
\* whatever order the tree stored them in: object before locator, info before
\* samples, aabb then material then skin, and under a shape the meshes before
\* the skeleton.
C17_ChildWriteOrder ==
    (ReadBack /\ pc = "done") =>
        \A m \in 1..Len(result) :
            LET order == ChildOrder(RoleOf(result, m, wkind), wkind)
                ch == Children(result, m)
            IN  \A c, d \in 1..Len(ch) :
                    (/\ c < d
                     /\ result[ch[c]].tag \in SeqRange(order)
                     /\ result[ch[d]].tag \in SeqRange(order)) =>
                        IndexIn(order, result[ch[c]].tag) <= IndexIn(order, result[ch[d]].tag)

\* buffer f begins with the magic and, right after it, a complete property
\* token named pdxasset of type "i" that holds integers
HeaderThenPdxasset(f) ==
    /\ Len(f) > 4 /\ SubSeq(f, 1, 4) = Magic
    /\ f[5] = CH_PROP
    /\ parseProperty(f, 4).ok
    /\ parseProperty(f, 4).prop_name = S_pdxasset
    /\ unpack_c(f, 6 + Len(S_pdxasset)) = CH_I
    /\ parseProperty(f, 4).prop_values # <<>>

\* C18: For every root tagged "File", with pdxasset (integers) set on it or
\* with no pdxasset set, a writer call either meets a schema error elsewhere in
\* the tree (NotImplementedError) or writes a file that begins with the magic
\* immediately followed by a complete pdxasset property token holding integers.
C18_PdxassetUnconditional ==
    [][\A kind \in {"mesh", "anim"} :
        (/\ pc \in {"idle", "done"}
         /\ WriteStep(kind)
         /\ TreeToWrite[1].tag = S_File
         /\ \/ get(TreeToWrite[1], S_pdxasset) = None
            \/ /\ get(TreeToWrite[1], S_pdxasset) # <<>>
               /\ TypesOf(get(TreeToWrite[1], S_pdxasset)) = {"int"}) =>
            IF WriteFailed THEN werr'.kind = "NotImplementedError"
            ELSE HeaderThenPdxasset(file')]_vars

\* d is one complete property token for that name: "!", the name length, the
\* name, a type byte "i", "f" or "s", a count, and a payload of the size the
\* count (for a string, the length field) tells
CompleteToken(d, name) ==
    LET L == Len(name) IN
    /\ Len(d) >= L + 7
    /\ d[1] = CH_PROP /\ d[2] = L /\ SubSeq(d, 3, L + 2) = name
    /\ d[L + 3] \in {CH_I, CH_F, CH_S}
    /\ unpack_i(d, L + 3) >= 0
    /\ d[L + 3] \in {CH_I, CH_F} => Len(d) = L + 7 + 4 * unpack_i(d, L + 3)
    /\ d[L + 3] = CH_S =>
           /\ unpack_i(d, L + 3) = 1
           /\ Len(d) >= L + 11
           /\ Len(d) = L + 11 + unpack_i(d, L + 7)

\* C19: Every property token in a file a writer wrote, for an attribute value
\* of any length, 0 included, has the complete layout: "!", name length, name,
\* type byte, 4-byte count, payload of matching size.
C19_PropertyLayoutComplete ==
    pc = "written" =>
        \A na \in EmittedAttrs(root_xml, wkind) :
            LET kv == root_xml[na[1]].attrib[na[2]]
            IN  /\ writeProperty(kv[1], kv[2]).ok
                /\ CompleteToken(writeProperty(kv[1], kv[2]).data, kv[1])

\* C20: String terminator handling. For every attribute the writer encodes
\* whose value is one Latin-1 string s, the empty string included, the token
\* written holds type "s", count 1, the length len(s) + 1, the bytes of s and
\* one zero byte after them; and the file, read back (no empty array being in
\* it), gives an element of the same tag whose attribute of that name is
\* exactly s.
C20_StringTerminator ==
    \A na \in (IF wkind # "none" /\ pc \in {"written", "done", "failed"}
                THEN EmittedAttrs(root_xml, wkind) ELSE {}) :
        LET n == na[1]
            name == root_xml[n].attrib[na[2]][1]
            value == root_xml[n].attrib[na[2]][2]
        IN  (TypesOf(value) = {"str"} /\ Len(value) = 1) =>
                /\ writeProperty(name, value).ok
                /\ writeProperty(name, value).data =
                       <<CH_PROP, Len(name)>> \o name \o <<CH_S, 1, 0, 0, 0>>
                       \o pack_i(Len(value[1][2]) + 1) \o value[1][2] \o <<0>>
                /\ (/\ ReadBack
                    /\ \A e \in EmittedAttrs(root_xml, wkind) :
                           root_xml[e[1]].attrib[e[2]][2] # <<>>) =>
                       /\ pc = "done"
                       /\ \E m \in 1..Len(result) :
                              /\ result[m].tag = root_xml[n].tag
                              /\ get(result[m], name) = value

\* C20 witness: the empty string was written as an attribute value and the
\* file was read back.
C20_Witness ==
    /\ ReadBack /\ pc = "done"
    /\ \E na \in EmittedAttrs(root_xml, wkind) :
           root_xml[na[1]].attrib[na[2]][2] = << <<"str", <<>>>> >>

\* ---------------------------------------------------------------- the reader's claims, continued
\* files that hold complete tokens and then end in the middle of one
TruncatedFiles == {Magic \o ts : ts \in TruncatedStreams}

\* C21: Decode is all-or-nothing. For every buffer that ends in the middle of a
\* token (an object token cut in its markers or before its zero byte, a
\* property cut in its name, count or payload), read_meshfile fails and returns
\* no tree, whatever complete tokens it had read before.
C21_DecodeAllOrNothing ==
    (ReadEnded /\ fdata \in TruncatedFiles) =>
        /\ pc = "failed"
        /\ err # NoErr
        /\ result = NoTree

\* C21 witness: read_meshfile had built an element with an attribute from the
\* complete tokens of a file, met the cut token, and failed.
C21_Witness ==
    /\ pc = "failed"
    /\ fdata \in TruncatedFiles
    /\ Len(elems) >= 2 /\ elems[2].attrib # <<>>
    /\ result = NoTree

\* ---------------------------------------------------------------- the tree model's claims
\* the children of element n of t that carry that tag, in document order
ChildrenTagged(t, n, tag) == SelectSeq(Children(t, n), LAMBDA c : t[c].tag = tag)

\* C22: Tree model child shapes. For every element of a decoded tree and every
\* tag t of a child of it, whatever attribute names the element carries,
\* PDXData(element) stores under the name t the PDXData node of the child when
\* exactly one child is tagged t, and the list of the k nodes in document order
\* when k >= 2 children are; and every attribute of the element is stored with
\* the value it has on the element.
C22_TreeModelChildShapes ==
    pc = "done" =>
        \A n \in 1..Len(result) :
            LET data == PDXData_init(result, n, 0)
            IN  /\ data.ok
                /\ \A c \in SeqRange(Children(result, n)) :
                       LET same == ChildrenTagged(result, n, result[c].tag)
                       IN  getattr(data.fields, result[c].tag) =
                               IF Len(same) = 1 THEN NonList(<<"PDXData", c>>)
                               ELSE PyList([k \in 1..Len(same) |-> <<"PDXData", same[k]>>])
                /\ \A a \in 1..Len(result[n].attrib) :
                       getattr(data.fields, result[n].attrib[a][1]) = PyList(result[n].attrib[a][2])

\* ---------------------------------------------------------------- settings.py
\* the attribute names, in the order json.dump(sort_keys=True) writes them
SettingNames ==
    <<"app", "config_dir", "config_path", "github_latest_notes", "github_latest_url",
      "github_latest_version", "last_set_engine", "last_update_check">>

\* the values __init__ sets: filepath, path.dirname(filepath), sys.executable
Filepath == Str(1)
Dirname == Str(2)
Executable == Str(3)

\* the strings the user interface stores: two engine names
Engines == {Str(4), Str(5)}

\* the latest day the clock reaches
MaxDay == 3

\* the release versions the network may report
Versions == {1, 2}

\* object.__setattr__ and object.__delattr__ on __dict__
Put(d, name, value) == [n \in DOMAIN d \cup {name} |-> IF n = name THEN value ELSE d[n]]
Remove(d, name) == [n \in DOMAIN d \ {name} |-> d[n]]

\* PDXsettings.__getattr__: None for an attribute that is not set
PDXsettings_getattr(d, name) == IF name \in DOMAIN d THEN d[name] ELSE PyNone

\* json can write the value
Serializable(value) == value[1] # "set"

\* the names json.dump wrote, in sorted order, before the first value it cannot
\* write raised TypeError
DumpedBefore(d) ==
    LET bad == {n \in DOMAIN d : ~Serializable(d[n])}
        first == CHOOSE n \in bad :
                     \A m \in bad : IndexIn(SettingNames, n) <= IndexIn(SettingNames, m)
    IN  {n \in DOMAIN d : IndexIn(SettingNames, n) < IndexIn(SettingNames, first)}

\* the file after open(path, "w") and json.dump(d, f, sort_keys=True): the
\* whole object, or the text cut where json.dump raised
json_dump(d) ==
    IF \A n \in DOMAIN d : Serializable(d[n])
    THEN [exists |-> TRUE, whole |-> TRUE, items |-> d]
    ELSE [exists |-> TRUE, whole |-> FALSE, items |-> [n \in DumpedBefore(d) |-> d[n]]]

\* save_settings_file: open(self.config_path, "w") raises TypeError when
\* config_path is None and OSError when the file cannot be written; every
\* exception is logged and dropped
save_settings_file(d, f) ==
    IF "config_path" \notin DOMAIN d THEN f
    ELSE IF ~writable THEN f
    ELSE json_dump(d)

\* __setattr__ on the object o = [dict, file]: set, then save
SetAttr(o, name, value) ==
    [dict |-> Put(o.dict, name, value),
     file |-> save_settings_file(Put(o.dict, name, value), o.file)]

\* setattr for each pair of kvs, in order
RECURSIVE SetAttrs(_, _)
SetAttrs(o, kvs) ==
    IF kvs = <<>> THEN o ELSE SetAttrs(SetAttr(o, Head(kvs)[1], Head(kvs)[2]), Tail(kvs))

\* settings_dict.items()
DictItems(d) ==
    LET names == SelectSeq(SettingNames, LAMBDA n : n \in DOMAIN d)
    IN  [k \in 1..Len(names) |-> <<names[k], d[names[k]]>>]

\* json.load of the file, {} when it raises
json_load(f) == IF f.whole THEN f.items ELSE EmptyDict

load_settings_file(o) ==
    SetAttrs(SetAttr(o, "config_path", Filepath), DictItems(json_load(o.file)))

\* the empty file `with open(filepath, "w") as _: pass` leaves, when it can
NewFile(f) == IF writable THEN [exists |-> TRUE, whole |-> FALSE, items |-> EmptyDict] ELSE f

\* what earlier runs may have left in the settings of the file
StoredSettings ==
    {EmptyDict}
    \cup {Put(Put(Put(EmptyDict, "app", Executable), "config_dir", Dirname), "config_path", Filepath)}
    \cup {Put(EmptyDict, "last_set_engine", e) : e \in Engines}
    \cup {Put(Put(Put(Put(EmptyDict, "github_latest_version", Float(v)),
                      "github_latest_url", Dict(v)),
                  "github_latest_notes", Str(10 + v)),
              "last_update_check", DateStr(day)) : v \in Versions, day \in 1..MaxDay}

\* what the file at config_path may hold before the package is imported:
\* nothing, text that is no JSON, or settings
ConfigFilesOnDisk ==
    {NoConfigFile, [exists |-> TRUE, whole |-> FALSE, items |-> EmptyDict]}
    \cup {[exists |-> TRUE, whole |-> TRUE, items |-> d] : d \in StoredSettings}

\* no codec call is made
CodecOff ==
    /\ file = Absent
    /\ root_xml = NoTree
    /\ wkind = "none"
    /\ werr = NoErr
    /\ pc = "idle"
    /\ fdata = <<>>
    /\ pos = 0
    /\ elems = <<>>
    /\ parent_element = 0
    /\ depth_list = <<>>
    /\ current_depth = 0
    /\ err = NoErr
    /\ result = NoTree

AppInit ==
    /\ CodecOff
    /\ constructed = FALSE
    /\ settings = EmptyDict
    /\ config_file \in ConfigFilesOnDisk
    /\ writable \in BOOLEAN
    /\ today \in 1..MaxDay
    /\ github = NewGithub
    /\ requested = FALSE
    /\ raised = NoErr

\* IO_PDX_SETTINGS = PDXsettings(config_path)
PDXsettings_init ==
    /\ ~constructed
    /\ LET start == [dict |-> EmptyDict, file |-> config_file]
           loaded == IF config_file.exists THEN load_settings_file(start)
                     ELSE [dict |-> EmptyDict, file |-> NewFile(config_file)]
           o == SetAttrs(loaded, << <<"config_path", Filepath>>, <<"config_dir", Dirname>>,
                                    <<"app", Executable>> >>)
       IN  /\ settings' = o.dict
           /\ config_file' = o.file
    /\ constructed' = TRUE
    /\ raised' = NoErr
    /\ UNCHANGED <<writable, today, github, requested>>
    /\ UNCHANGED codecVars

\* IO_PDX_SETTINGS.name = value
PDXsettings_setattr(name, value) ==
    /\ constructed
    /\ settings' = SetAttr([dict |-> settings, file |-> config_file], name, value).dict
    /\ config_file' = SetAttr([dict |-> settings, file |-> config_file], name, value).file
    /\ raised' = NoErr
    /\ UNCHANGED <<constructed, writable, today, github, requested>>
    /\ UNCHANGED codecVars

\* del IO_PDX_SETTINGS.name
PDXsettings_delattr(name) ==
    /\ constructed
    /\ IF name \in DOMAIN settings
       THEN /\ settings' = Remove(settings, name)
            /\ config_file' = save_settings_file(Remove(settings, name), config_file)
            /\ raised' = NoErr
       ELSE /\ raised' = ErrOf(Raise("AttributeError", name))
            /\ UNCHANGED <<settings, config_file>>
    /\ UNCHANGED <<constructed, writable, today, github, requested>>
    /\ UNCHANGED codecVars

\* the assignments and deletions the callers make
SetAttribute == \E value \in Engines \cup {ASet} : PDXsettings_setattr("last_set_engine", value)
DeleteAttribute == \E name \in {"last_set_engine", "config_path"} : PDXsettings_delattr(name)

\* ---------------------------------------------------------------- updater.py
\* IO_PDX_INFO["current_git_tag"]
CurrentVersion == Float(1)

\* what get_data(releases_url) gives: a list whose first release carries the
\* tag, a list whose first release has a tag that is no number, an empty list,
\* URLError, or another exception
Responses ==
    {[kind |-> "releases", tag |-> v] : v \in Versions}
    \cup {[kind |-> k, tag |-> 0] : k \in {"badtag", "empty", "URLError", "Exception"}}

\* a recheck rule that also checks again on the day of the last check
Recheck_sameDay(d, day) ==
    \/ PDXsettings_getattr(d, "last_update_check") = PyNone
    \/ day >= PDXsettings_getattr(d, "last_update_check")[2]

\* recheck: no last_update_check, or date.today() > the date it parses to
Recheck(d, day) ==
    \/ PDXsettings_getattr(d, "last_update_check") = PyNone
    \/ day > PDXsettings_getattr(d, "last_update_check")[2]

\* what leaves refresh when release_list is []: the IndexError of line 71 is
\* logged, that of `latest = release_list[0]` is not caught
EmptyListRaises == ErrOf(Raise("IndexError", "list index out of range"))

\* github.refresh(force), the network giving `response`
Github_API_refresh(force, response) ==
    /\ constructed
    /\ IF Recheck(settings, today) \/ force THEN
           /\ requested' = TRUE
           /\ IF response.kind = "releases" THEN
                  LET o == SetAttrs([dict |-> settings, file |-> config_file],
                                    << <<"github_latest_version", Float(response.tag)>>,
                                       <<"github_latest_url", Dict(response.tag)>>,
                                       <<"github_latest_notes", Str(10 + response.tag)>>,
                                       <<"last_update_check", DateStr(today)>> >>)
                  IN  /\ settings' = o.dict
                      /\ config_file' = o.file
                      /\ github' = [LATEST_VERSION |-> Float(response.tag),
                                    LATEST_URL |-> Dict(response.tag),
                                    LATEST_NOTES |-> Str(10 + response.tag),
                                    AT_LATEST |-> (CurrentVersion = Float(response.tag))]
                      /\ raised' = NoErr
              ELSE
                  /\ raised' = CASE response.kind = "empty" -> EmptyListRaises
                                 [] response.kind = "badtag" ->
                                        ErrOf(Raise("ValueError", "could not convert string to float"))
                                 [] OTHER -> NoErr
                  /\ UNCHANGED <<settings, config_file, github>>
       ELSE
           /\ requested' = FALSE
           /\ github' = [LATEST_VERSION |-> PDXsettings_getattr(settings, "github_latest_version"),
                         LATEST_URL |-> PDXsettings_getattr(settings, "github_latest_url"),
                         LATEST_NOTES |-> PDXsettings_getattr(settings, "github_latest_notes"),
                         AT_LATEST |-> (CurrentVersion =
                                            PDXsettings_getattr(settings, "github_latest_version"))]
           /\ raised' = NoErr
           /\ UNCHANGED <<settings, config_file>>
    /\ UNCHANGED <<constructed, writable, today>>
    /\ UNCHANGED codecVars

Refresh == \E force \in BOOLEAN, response \in Responses : Github_API_refresh(force, response)

\* midnight passes between two calls
NextDay ==
    /\ today < MaxDay
    /\ today' = today + 1
    /\ UNCHANGED <<constructed, settings, config_file, writable, github, requested, raised>>
    /\ UNCHANGED codecVars

AppNext ==
    \/ PDXsettings_init
    \/ SetAttribute
    \/ DeleteAttribute
    \/ Refresh
    \/ NextDay

AppSpec == AppInit /\ [][AppNext]_vars

\* ---------------------------------------------------------------- the settings' and the updater's claims
\* the file at config_path is a JSON text that holds exactly the attributes d
FileHolds(f, d) == f.exists /\ f.whole /\ f.items = d

\* C23: Settings persistence. The file being writable, after the construction
\* and after every attribute assignment and deletion the JSON file at
\* config_path holds exactly the object's current attributes; and every setting
\* of a settings file that existed at construction is in the file after it
\* (with its value, unless it is one of config_path, config_dir, app, which
\* __init__ sets).
C23_SettingsPersistence ==
    [][(writable /\ constructed' /\ (PDXsettings_init \/ SetAttribute \/ DeleteAttribute)) =>
        /\ FileHolds(config_file', settings')
        /\ PDXsettings_init =>
               \A n \in DOMAIN json_load(config_file) :
                   /\ n \in DOMAIN config_file'.items
                   /\ n \notin {"config_path", "config_dir", "app"} =>
                          config_file'.items[n] = json_load(config_file)[n]]_vars

\* ---------------------------------------------------------------- the writers' claims, continued
\* the children of element n the writer of that kind goes on to, in the order
\* it does: the first child with each tag it looks up with find(), or all
\* children in stored order
EmittedChildren(t, n, kind) ==
    LET role == RoleOf(t, n, kind)
        tags == SchemaChildren(role, kind)
    IN  IF role \in {"root", "mesh"}
        THEN SelectSeq([k \in 1..Len(tags) |-> find(t, n, tags[k])], LAMBDA c : c # 0)
        ELSE IF role \in {"object", "shape", "skeleton", "locator", "info"} THEN Children(t, n)
        ELSE <<>>

\* element n and the elements below it, in the order their object tokens are
\* written
RECURSIVE EmittedOrder(_, _, _)
EmittedOrder(t, n, kind) ==
    <<n>> \o Flatten([k \in 1..Len(EmittedChildren(t, n, kind)) |->
                         EmittedOrder(t, EmittedChildren(t, n, kind)[k], kind)])

\* the depth the claim gives the object token of a node of that kind
ClaimedDepth(role) ==
    CASE role \in {"object", "locator", "info", "samples"} -> 1
      [] role \in {"shape", "node", "animbone"} -> 2
      [] role \in {"mesh", "skeleton", "other"} -> 3
      [] role \in {"aabb", "material", "skin", "bone"} -> 4
      [] OTHER -> 0

\* the claimed depths of the object tokens of t, in the order they are written
ClaimedDepths(t, kind) ==
    LET order == EmittedOrder(t, 1, kind)
    IN  [k \in 1..(Len(order) - 1) |-> ClaimedDepth(RoleOf(t, order[k + 1], kind))]

\* C24: Emitted depths. Every file a writer wrote is the header, the pdxasset
\* property and then, node after node in the order of writing, an object token
\* of depth 1 ('object', 'locator', 'info', 'samples'), 2 (shape, locator node,
\* animation bone), 3 (child of a shape) or 4 (aabb, material, skin, bone),
\* followed by the node's properties; so the first token has depth 1 and no
\* token is more than one deeper than the token before it.
C24_EmittedDepths ==
    pc = "written" =>
        LET order == EmittedOrder(root_xml, 1, wkind)
            depths == ClaimedDepths(root_xml, wkind)
        IN  /\ file = Magic \o writeProperty(S_pdxasset, get(root_xml[1], S_pdxasset)).data
                      \o Flatten([k \in 1..Len(depths) |->
                             ObjToken(depths[k], root_xml[order[k + 1]].tag)
                             \o writeProps(root_xml[order[k + 1]],
                                           SchemaProps(RoleOf(root_xml, order[k + 1], wkind))).data])
            /\ \A k \in 1..Len(depths) :
                   depths[k] <= (IF k = 1 THEN 0 ELSE depths[k - 1]) + 1

\* C24 witness: a mesh file was written from a tree with a shape, a mesh and
\* two nodes at depth 4 below it.
C24_Witness ==
    /\ pc = "written" /\ wkind = "mesh"
    /\ Len(ClaimedDepths(root_xml, wkind)) >= 5
    /\ \E k \in 1..Len(root_xml) : RoleOf(root_xml, k, wkind) = "aabb"

\* ---------------------------------------------------------------- the property token's claims
\* the value 0..255 of the byte that follows the "!" at pos
NameLengthByte == unpack_c(fdata, pos + 1)

\* the L bytes after the length byte, as a name: Latin-1, an ending zero dropped
NameOfLength(L) ==
    LET name == [k \in 1..L |-> fdata[pos + 2 + k]]
    IN  IF L > 0 /\ name[L] = 0 THEN SubSeq(name, 1, L - 1) ELSE name

\* C25: Property-name length byte. For every value L in 0..255 of the byte
\* after "!", the L bytes being there and a well-formed data record starting
\* right after them, the reader takes exactly those L bytes as the property
\* name, decodes that data record, sets the attribute of that name to its
\* values and goes on behind it.
C25_NameLengthByte ==
    [][(/\ AtToken /\ unpack_c(fdata, pos) = CH_PROP
        /\ CanUnpack(fdata, pos + 1, 1)
        /\ CanUnpack(fdata, pos + 2, NameLengthByte)
        /\ parseData(fdata, pos + 2 + NameLengthByte).ok
        /\ parseData(fdata, pos + 2 + NameLengthByte).pos >= pos + 7 + NameLengthByte) =>
            /\ pc' = "loop"
            /\ pos' = parseData(fdata, pos + 2 + NameLengthByte).pos
            /\ get(elems'[parent_element], NameOfLength(NameLengthByte))
                   = parseData(fdata, pos + 2 + NameLengthByte).datavalues]_vars

\* ---------------------------------------------------------------- the updater's claims
\* IO_PDX_SETTINGS.last_update_check
LastUpdateCheck(d) == PDXsettings_getattr(d, "last_update_check")

\* C26: Update check at most once per day. For every call refresh(force=False):
\* when the last check completed today (last_update_check is today's date), no
\* network request is made, the settings stay as they are and the cached
\* release data is used; a check that completes stores today's date; and a
\* check that fails with URLError leaves last_update_check as it was, so that
\* the next call asks the network again.
C26_UpdateCheckOncePerDay ==
    [][\A response \in Responses :
        Github_API_refresh(FALSE, response) =>
            /\ LastUpdateCheck(settings) = DateStr(today) =>
                   /\ ~requested'
                   /\ settings' = settings
                   /\ github'.LATEST_VERSION = PDXsettings_getattr(settings, "github_latest_version")
            /\ (requested' /\ response.kind = "releases") =>
                   LastUpdateCheck(settings') = DateStr(today)
            /\ (requested' /\ response.kind = "URLError") =>
                   /\ LastUpdateCheck(settings') = LastUpdateCheck(settings)
                   /\ Recheck(settings', today)]_vars

\* C26 witness: last_update_check is today's date, and a refresh(force=False)
\* took version 2 from the settings without a request.
C26_Witness ==
    /\ constructed
    /\ ~requested
    /\ LastUpdateCheck(settings) = DateStr(today)
    /\ github.LATEST_VERSION = Float(2)
    /\ github.LATEST_VERSION = PDXsettings_getattr(settings, "github_latest_version")

\* C30: refresh never lets a failure of the update check escape. When the
\* request fails with URLError, when the release list is empty, or when
\* another exception occurs while fetching, refresh returns normally and the
\* settings, last_update_check included, are as before.
C30_RefreshNeverRaises ==
    [][\A force \in BOOLEAN :
       \A response \in {r \in Responses : r.kind \in {"URLError", "empty", "Exception"}} :
        (Github_API_refresh(force, response) /\ requested') =>
            /\ raised' = NoErr
            /\ settings' = settings
            /\ config_file' = config_file]_vars

\* ---------------------------------------------------------------- the reader's claims, continued
\* read_meshfile is in its loop or has left it: the header was good
LoopEntered == pc \in {"loop", "branch", "done", "failed"} /\ elems # <<>>

\* C27: Ancestor-stack invariant of the reader. From the start of the loop on,
\* after every token, depth_list is not empty, its first entry is the root
\* 'File' element, every later entry is a child of the entry before it, and
\* its last entry is the current parent.
C27_AncestorStack ==
    LoopEntered =>
        /\ depth_list # <<>>
        /\ depth_list[1] = 1
        /\ elems[1].tag = S_File /\ elems[1].parent = 0
        /\ \A k \in 2..Len(depth_list) : elems[depth_list[k]].parent = depth_list[k - 1]
        /\ Last(depth_list) = parent_element

\* C27 witness: the stack holds the root and two elements below it, after an
\* element two levels deep had been closed: the stack was cut and grew again.
C27_Witness ==
    /\ pc = "loop"
    /\ Len(depth_list) >= 3
    /\ \E n \in 1..Len(elems) :
           /\ PDXData_depth(elems, n) >= 2
           /\ n \notin SeqRange(depth_list)
           /\ n < Last(depth_list)

\* ---------------------------------------------------------------- the mesh writer's claims
\* the elements of t from n on for which write_meshfile emits an object token,
\* and the root
RECURSIVE KeptFrom(_, _)
KeptFrom(t, n) ==
    IF n > Len(t) THEN <<>>
    ELSE (IF Emitted(t, n, "mesh") THEN <<n>> ELSE <<>>) \o KeptFrom(t, n + 1)

\* the attributes of attrib that props names and that are not None
RECURSIVE NamedAttribs(_, _)
NamedAttribs(attrib, props) ==
    IF attrib = <<>> THEN <<>>
    ELSE (IF Head(attrib)[1] \in SeqRange(props) /\ Head(attrib)[2] # None
          THEN <<Head(attrib)>> ELSE <<>>)
         \o NamedAttribs(Tail(attrib), props)

\* t without the children and the attributes that write_meshfile does not name
Pruned(t) ==
    LET kept == KeptFrom(t, 1)
    IN  [k \in 1..Len(kept) |->
            [tag |-> t[kept[k]].tag,
             parent |-> IF t[kept[k]].parent = 0 THEN 0 ELSE IndexIn(kept, t[kept[k]].parent),
             attrib |-> NamedAttribs(t[kept[k]].attrib, SchemaProps(RoleOf(t, kept[k], "mesh")))]]

\* C28: The mesh writer emits only what its fixed structure names. A call of
\* write_meshfile on a tree does what it does on the tree without the
\* attributes its lists do not name and without the children it does not
\* visit: it writes the same bytes, or it raises the same exception; and in
\* that tree every attribute of a node other than pdxasset is one the list of
\* the node's kind names.
C28_MeshWriterEmitsNamedOnly ==
    [][write_meshfile =>
          \A pruned \in {Pruned(TreeToWrite)} :
              LET kept == KeptFrom(TreeToWrite, 1)
                  r == write_meshfile_data(pruned)
              IN  /\ IF r.ok THEN pc' \in {"written", "rewritten"} /\ file' = r.data
                     ELSE WriteFailed /\ werr' = ErrOf(r) /\ file' = file
                  /\ \A k \in 2..Len(pruned) : \A a \in 1..Len(pruned[k].attrib) :
                         pruned[k].attrib[a][1]
                             \in SeqRange(SchemaProps(RoleOf(TreeToWrite, kept[k], "mesh")))]_vars

\* C28 witness: write_meshfile wrote a file from a tree in which a child it
\* does not visit (a second aabb, a child of a bone, a second object, a child
\* of a locator node) holds an attribute whose value no property can hold, a
\* list of an integer and a float.
C28_Witness ==
    /\ pc = "written" /\ wkind = "mesh"
    /\ \E n \in 2..Len(root_xml) :
           /\ ~Emitted(root_xml, n, "mesh")
           /\ root_xml[n].tag \in {S_aabb, S_object, <<100>>}
           /\ \E a \in 1..Len(root_xml[n].attrib) :
                  Cardinality(TypesOf(root_xml[n].attrib[a][2])) > 1

\* ---------------------------------------------------------------- the integer's claims
\* attribute a of element n of t is a list of integers
IntAttr(t, n, a) == t[n].attrib[a][2] # None /\ TypesOf(t[n].attrib[a][2]) = {"int"}

\* C29: Integer range. A writer that is to encode an integer attribute holding
\* a value outside [-2^31, 2^31 - 1] raises and leaves the file as it was; and
\* when a file a writer wrote has been read, every integer attribute that was
\* encoded holds values of the range only and is, on the same node of the
\* tree read, the same list of integers.
C29_IntegerRange ==
    /\ [][\A kind \in {"mesh", "anim"} :
            (/\ \E n \in 1..Len(TreeToWrite) : \E a \in 1..Len(TreeToWrite[n].attrib) :
                    /\ IntAttr(TreeToWrite, n, a)
                    /\ \E k \in 1..Len(TreeToWrite[n].attrib[a][2]) :
                           ~InIntRange(TreeToWrite[n].attrib[a][2][k])
                    /\ EmittedAttr(TreeToWrite, n, a, kind)
             /\ WriteStep(kind))
            => WriteFailed /\ file' = file /\ wkind' = wkind]_vars
    /\ [](ReadBack /\ pc = "done" =>
            LET order == EmittedOrder(root_xml, 1, wkind)
            IN  \A k \in 1..Len(order) : \A a \in 1..Len(root_xml[order[k]].attrib) :
                    (IntAttr(root_xml, order[k], a) /\ EmittedAttr(root_xml, order[k], a, wkind)) =>
                        /\ \A j \in 1..Len(root_xml[order[k]].attrib[a][2]) :
                               InIntRange(root_xml[order[k]].attrib[a][2][j])
                        /\ k <= Len(result)
                        /\ get(result[k], root_xml[order[k]].attrib[a][1])
                               = root_xml[order[k]].attrib[a][2])

\* C29 witness: a writer raised struct.error on a tree whose attribute to encode
\* holds 2^31, and the file is as it was.
C29_Witness ==
    /\ pc = "wfailed" /\ werr.kind = "struct.error"
    /\ file \in FilesToOverwrite
    /\ \E n \in 2..Len(root_xml) : \E a \in 1..Len(root_xml[n].attrib) :
           root_xml[n].attrib[a][2] = << <<"int", -2147483647 - 1, 1>> >>

====
